---- MODULE Spec2Model ----
(***************************************************************************)
(* rblx-monitor: the anomaly ledger and notifier (db.ts,                   *)
(* anomaly-detector.ts, anomaly-notifier.ts), the retrying HTTP client     *)
(* (http.ts), the circular sampling scheduler (roblox-parser.ts) and the   *)
(* bot's start/stop commands (telegram.ts), as state machines.             *)
(***************************************************************************)
EXTENDS Integers, Sequences, FiniteSets, TLC

\* ------------------------------------------------------------------ bounds
MaxAnomalies == 2
MaxTs == 1
MaxCalls == 2
MaxCrashes == 1
MaxGames == 3
MaxDurationTicks == 7
MaxClockTicks == 7
MaxRuns == 2
MaxBotClockTicks == 3
MaxRejected == 1
MaxScript == 4
MaxBatchTs == 2
MaxRetryAttempts == 2
MaxErrorKinds == 2
MaxWindow == 3
MaxPasses == 1
MaxParseRetries == 4
MaxKeys == 2
MaxCatalogClockTicks == 3
MaxTies == 2
MaxMainRuns == 2
MaxParseCommands == 2
MaxCancels == 2

VARIABLES
  \* ---- anomaly ledger (table anomalies; the row id is the index)
  anomalies,            \* Seq of [timestamp, notified]
  \* ---- external channel (Telegram chat)
  accepted,             \* accepted[id]: messages the channel accepted for anomaly id
  \* ---- one sendAnomalyNotifications invocation (locals of the async function)
  nPc,                  \* "idle" | "loop" | "sending" | "answered" | "delay"
  unnotifiedAnomalies,  \* the batch read at the start of the invocation
  idx,                  \* position of the for-of loop in the batch (1-based)
  sent,                 \* while idle: the value the last invocation returned
  errors,               \* while idle: the value the last invocation returned
  resp,                 \* what sendTelegramNotification is about to return
  \* ---- history of the run
  calls,                \* invocations started so far
  crashes,              \* process restarts so far
  lastOutcome,          \* lastOutcome[id]: outcome of the latest delivery attempt
  failThenOk,           \* failThenOk[id]: an attempt failed and the next succeeded
  sentCredit,           \* sentCredit[id]: how often sent++ ran in id's iteration
  flips,                \* flips[id]: how often notified went 0 -> 1
  newSinceRead,         \* an anomaly was inserted after the latest batch read
  prevReturned,         \* the previous invocation returned (no restart since)
  thisCall,             \* facts about the running invocation, fixed at its read
  \* ---- catalog store and clock
  catalog,              \* number of rows of table games
  now,                  \* Date.now(), in ms
  \* ---- scheduler runs (locals of one circular parsing call each)
  run,                  \* run[r]: the locals of run r and what it has done
  \* ---- TelegramBot fields
  isParsingActive,
  parsingStartTime,
  parsingStats,
  stopPending,          \* stopPending[r]: a stop was accepted while run r was active
  rejected,             \* 'find anomalies' requests answered "already running"
  \* ---- the inputs two runs compared with each other are both given
  script,               \* script[k]: what happens at and after the k-th loop top
  \* ---- one HttpClient.get call
  http,                 \* the locals of get and what the call has done
  \* ---- the detector: its configuration, the settings row, one game's window
  detector,
  \* ---- one parseOnlineFromRoblox call
  parse,                \* the locals of the call and what it has done
  \* ---- table games
  games,                \* rows: Seq of [source_id, title, url], the row id is the
                        \* index; last: the latest upsert call and its result
  \* ---- main of index.ts
  main,                 \* where the pipeline of the process stands, and its run
  \* ---- a sendAnomalyNotifications invocation of another process
  overlap,              \* its locals, and which invocation the channel accepted
                        \* which anomaly from
  \* ---- TelegramBot fields of the settings dialogue and the settings row
  input,
  \* ---- TelegramBot.isGameParsingActive and the handleParseGames calls
  gameParsing

ledgerVars == <<anomalies, accepted>>
notifierVars == <<nPc, unnotifiedAnomalies, idx, sent, errors, resp>>
historyVars == <<calls, crashes, lastOutcome, failThenOk, sentCredit, flips,
                 newSinceRead, prevReturned, thisCall>>

schedVars == <<catalog, now, run>>
botVars == <<isParsingActive, parsingStartTime, parsingStats, stopPending, rejected>>

twinVars == <<script>>
httpVars == <<http>>
detectorVars == <<detector>>
parseVars == <<parse>>
gamesVars == <<games>>
sessionVars == <<main, overlap, input, gameParsing>>

vars == <<ledgerVars, notifierVars, historyVars, schedVars, botVars, twinVars,
          httpVars, detectorVars, parseVars, gamesVars, sessionVars>>

Range(s) == {s[i] : i \in 1..Len(s)}

\* ------------------------------------------------------------------ ledger
Ids(tbl) == 1..Len(tbl)

\* INSERT INTO anomalies (..., notified) VALUES (..., anomaly.notified ?? 0)
InsertAnomaly(tbl, timestamp, notified) ==
  Append(tbl, [timestamp |-> timestamp, notified |-> notified])

\* UPDATE anomalies SET notified = (id = ?): the comparison written into SET
MarkOnlyThisNotified(tbl, id) ==
  [a \in Ids(tbl) |-> [tbl[a] EXCEPT !.notified = IF a = id THEN 1 ELSE 0]]

\* UPDATE anomalies SET notified = 1 WHERE id = ?
MarkAnomalyNotified(tbl, id) ==
  [a \in Ids(tbl) |-> IF a = id THEN [tbl[a] EXCEPT !.notified = 1] ELSE tbl[a]]

\* SELECT ... FROM anomalies (the WHERE notified = 0 left out)
AllAnomalyIds(tbl) == Ids(tbl)

\* ... WHERE a.notified = 0
UnnotifiedIds(tbl) == {a \in Ids(tbl) : tbl[a].notified = 0}

\* ORDER BY a.id ASC: the rows in the order of their insertion
OrderedByInsertion(tbl, ids) ==
  {s \in [1..Cardinality(ids) -> ids] : \A i, j \in DOMAIN s : i < j => s[i] < s[j]}

\* The orders ORDER BY a.timestamp ASC allows: rows of equal timestamp come in
\* an order SQL leaves open.
OrderedByTimestamp(tbl, ids) ==
  {s \in [1..Cardinality(ids) -> ids] :
     /\ \A i, j \in DOMAIN s : i # j => s[i] # s[j]
     /\ \A i, j \in DOMAIN s : i < j => tbl[s[i]].timestamp <= tbl[s[j]].timestamp}

\* getUnnotifiedAnomalies with the WHERE a.notified = 0 left out
GetAllAnomalies(tbl) == OrderedByTimestamp(tbl, AllAnomalyIds(tbl))

GetUnnotifiedAnomalies(tbl) == OrderedByTimestamp(tbl, UnnotifiedIds(tbl))

\* ---------------------------------------------------------------- notifier
DELAY_MS == 1000

\* sent++ placed before the success test, and the record marked whatever the
\* channel answered
OnSendResultUnchecked(success, markThrows) ==
  [mark |-> TRUE,
   sentInc |-> 1,
   errInc |-> IF success /\ ~markThrows THEN 0 ELSE 1,
   delay |-> ~(success /\ markThrows)]

\* sent++ written above `if (success)`
OnSendResultCountFirst(success, markThrows) ==
  [mark |-> success,
   sentInc |-> IF success /\ markThrows THEN 0 ELSE 1,
   errInc |-> IF success /\ ~markThrows THEN 0 ELSE 1,
   delay |-> ~(success /\ markThrows)]

\* The else branch without its errors++
OnSendResultErrorUncounted(success, markThrows) ==
  [mark |-> success,
   sentInc |-> IF success /\ ~markThrows THEN 1 ELSE 0,
   errInc |-> IF success /\ markThrows THEN 1 ELSE 0,
   delay |-> ~(success /\ markThrows)]

\* The body of the for-of loop after `await sendTelegramNotification(message)`:
\* what it does with the boolean the send returned. markThrows: the UPDATE of
\* markAnomalyAsNotified throws, which the inner catch turns into errors++ and
\* which skips sent++ and the delay.
OnSendResult(success, markThrows) ==
  [mark |-> success,
   sentInc |-> IF success /\ ~markThrows THEN 1 ELSE 0,
   errInc |-> IF success /\ ~markThrows THEN 0 ELSE 1,
   delay |-> ~(success /\ markThrows)]

NoCall == [repeat |-> FALSE, prevErrors |-> 0, tried |-> 0]

\* return { sent, errors }: the locals go, sent and errors stay as returned
Return ==
  /\ nPc' = "idle"
  /\ unnotifiedAnomalies' = <<>>
  /\ idx' = 1
  /\ prevReturned' = TRUE

\* insertAnomaly(anomaly) has run: the row is there, nothing is known of it yet
Recorded(timestamp) ==
  /\ anomalies' = InsertAnomaly(anomalies, timestamp, 0)
  /\ accepted' = Append(accepted, 0)
  /\ lastOutcome' = Append(lastOutcome, "none")
  /\ failThenOk' = Append(failThenOk, FALSE)
  /\ sentCredit' = Append(sentCredit, 0)
  /\ flips' = Append(flips, 0)
  /\ newSinceRead' = TRUE

\* saveAnomaly: insertAnomaly with the record analyzeGameForAnomalies built,
\* which has no notified field, so the row is written with notified = 0.
\* The pipeline of index.ts records anomalies before it awaits the notifier,
\* so no insert falls inside an invocation.
SaveAnomaly ==
  /\ nPc = "idle"
  /\ Len(anomalies) < MaxAnomalies
  /\ \E timestamp \in 1..MaxTs : Recorded(timestamp)
  /\ UNCHANGED <<notifierVars, calls, crashes, prevReturned, thisCall>>

\* sendAnomalyNotifications is called: lines 97-108. readThrows: the SELECT of
\* getUnnotifiedAnomalies throws and the outer catch counts one error.
Invoke ==
  /\ nPc = "idle"
  /\ calls < MaxCalls
  /\ calls' = calls + 1
  /\ newSinceRead' = FALSE
  /\ thisCall' = [repeat |-> prevReturned /\ ~newSinceRead,
                  prevErrors |-> IF prevReturned THEN errors ELSE 0,
                  tried |-> 0]
  /\ sent' = 0
  /\ resp' = FALSE
  /\ \E readThrows \in BOOLEAN :
       IF readThrows
         THEN /\ errors' = 1
              /\ Return
         ELSE /\ errors' = 0
              /\ \E batch \in GetUnnotifiedAnomalies(anomalies) :
                   IF batch = <<>>
                     THEN Return
                     ELSE /\ nPc' = "loop"
                          /\ unnotifiedAnomalies' = batch
                          /\ idx' = 1
                          /\ prevReturned' = FALSE
  /\ UNCHANGED <<ledgerVars, crashes, lastOutcome, failThenOk, sentCredit, flips>>

\* The top of the for-of loop: the batch is exhausted and the function returns
\* (lines 136-143), or the next anomaly is formatted (line 112) and its send is
\* started (line 113). formatThrows: getAnomalySettings throws inside
\* formatAnomalyMessage; the inner catch counts it, with no send and no delay.
LoopTop ==
  /\ nPc = "loop"
  /\ IF idx > Len(unnotifiedAnomalies)
       THEN /\ Return
            /\ UNCHANGED <<errors, lastOutcome, thisCall>>
       ELSE \E formatThrows \in BOOLEAN :
              IF formatThrows
                THEN /\ errors' = errors + 1
                     /\ idx' = idx + 1
                     /\ lastOutcome' = [lastOutcome EXCEPT
                                          ![unnotifiedAnomalies[idx]] = "fmterr"]
                     /\ UNCHANGED <<nPc, unnotifiedAnomalies, thisCall, prevReturned>>
                ELSE /\ nPc' = "sending"
                     /\ thisCall' = [thisCall EXCEPT !.tried = @ + 1]
                     /\ UNCHANGED <<unnotifiedAnomalies, idx, errors, lastOutcome,
                                    prevReturned>>
  /\ UNCHANGED <<ledgerVars, sent, resp, calls, crashes, failThenOk, sentCredit,
                 flips, newSinceRead>>

\* sendTelegramNotification, lines 53-91: the channel accepts the message and
\* answers ok (true is returned), or the request fails (the catch returns false).
ChannelAnswers ==
  /\ nPc = "sending"
  /\ \E ok \in BOOLEAN :
       /\ resp' = ok
       /\ accepted' = [accepted EXCEPT ![unnotifiedAnomalies[idx]] =
                         IF ok THEN @ + 1 ELSE @]
  /\ nPc' = "answered"
  /\ UNCHANGED <<anomalies, unnotifiedAnomalies, idx, sent, errors, historyVars>>

\* Lines 113-133: the send has returned resp.
SendReturns ==
  /\ nPc = "answered"
  /\ \E markThrows \in BOOLEAN :
       LET id == unnotifiedAnomalies[idx]
           eff == OnSendResult(resp, markThrows)
           outcome == IF ~resp THEN "fail" ELSE IF markThrows THEN "markerr" ELSE "ok"
       IN /\ (markThrows => resp)
          /\ anomalies' = IF eff.mark /\ ~markThrows
                            THEN MarkAnomalyNotified(anomalies, id)
                            ELSE anomalies
          /\ sent' = sent + eff.sentInc
          /\ errors' = errors + eff.errInc
          /\ IF eff.delay
               THEN nPc' = "delay" /\ idx' = idx
               ELSE nPc' = "loop" /\ idx' = idx + 1
          /\ lastOutcome' = [lastOutcome EXCEPT ![id] = outcome]
          /\ failThenOk' = [failThenOk EXCEPT ![id] =
                              lastOutcome[id] = "fail" /\ outcome = "ok"]
          /\ sentCredit' = [sentCredit EXCEPT ![id] = @ + eff.sentInc]
          /\ flips' = [flips EXCEPT ![id] =
                         IF anomalies[id].notified = 0 /\ anomalies'[id].notified = 1
                           THEN @ + 1 ELSE @]
  /\ resp' = FALSE
  /\ UNCHANGED <<accepted, unnotifiedAnomalies, calls, crashes, newSinceRead,
                 prevReturned, thisCall>>

\* await new Promise(resolve => setTimeout(resolve, 1000)) is over (line 125)
DelayElapses ==
  /\ nPc = "delay"
  /\ nPc' = "loop"
  /\ idx' = idx + 1
  /\ UNCHANGED <<ledgerVars, unnotifiedAnomalies, sent, errors, resp, historyVars>>

\* The process dies during an invocation and is started again: the locals are
\* gone, the table and the chat are as they were.
Restart ==
  /\ nPc # "idle"
  /\ crashes < MaxCrashes
  /\ crashes' = crashes + 1
  /\ nPc' = "idle"
  /\ unnotifiedAnomalies' = <<>>
  /\ idx' = 1
  /\ sent' = 0
  /\ errors' = 0
  /\ resp' = FALSE
  /\ lastOutcome' = IF nPc = "answered" /\ resp
                      THEN [lastOutcome EXCEPT ![unnotifiedAnomalies[idx]] = "lost"]
                      ELSE lastOutcome
  /\ prevReturned' = FALSE
  /\ thisCall' = NoCall
  /\ UNCHANGED <<ledgerVars, calls, failThenOk, sentCredit, flips, newSinceRead>>

InitLedgerAndNotifier ==
  /\ anomalies = <<>>
  /\ accepted = <<>>
  /\ nPc = "idle"
  /\ unnotifiedAnomalies = <<>>
  /\ idx = 1
  /\ sent = 0
  /\ errors = 0
  /\ resp = FALSE
  /\ calls = 0
  /\ crashes = 0
  /\ lastOutcome = <<>>
  /\ failThenOk = <<>>
  /\ sentCredit = <<>>
  /\ flips = <<>>
  /\ newSinceRead = FALSE
  /\ prevReturned = FALSE
  /\ thisCall = NoCall

\* ------------------------------------------------------------- http client
\* Math.pow(2, n)
RECURSIVE Pow2(_)
Pow2(n) == IF n <= 0 THEN 1 ELSE 2 * Pow2(n - 1)

\* Math.random() * 0.2, in hundredths: a value of [0, 0.2)
JitterPercents == {0, 10, 19}

\* const jitter = Math.random() * baseMs * 0.5
WithJitterOfHalf(baseMs, pct, down) ==
  LET jitter == (baseMs * pct) \div 40
  IN IF down THEN baseMs - jitter ELSE baseMs + jitter

\* withJitter, lines 8-11: baseMs moved down or up by jitter = pct% of baseMs
WithJitter(baseMs, pct, down) ==
  LET jitter == (baseMs * pct) \div 100
  IN IF down THEN baseMs - jitter ELSE baseMs + jitter

\* config.RETRY_BACKOFF_MS, a positive integer of the environment
BackoffChoices == {100, 250}

\* if (attempt > totalAttempts) throw error
GiveUpOneLate(attempt, totalAttempts) == attempt > totalAttempts

\* if (attempt >= totalAttempts) throw error, line 35
GiveUp(attempt, totalAttempts) == attempt >= totalAttempts

NoRequest ==
  [pc |-> "idle", RETRY_ATTEMPTS |-> 0, RETRY_BACKOFF_MS |-> 100, attempt |-> 0,
   \* requests: calls of this.client.get; failures: the errors they threw, in
   \* order; sleeps: the backoff sleeps begun; thrown: the error get threw;
   \* returned: the request whose response.data get returned
   requests |-> 0, failures |-> <<>>, sleeps |-> <<>>, thrown |-> 0,
   returned |-> 0]

\* get that sleeps RETRY_BACKOFF_MS before its first request
HttpGetSleepingFirst ==
  /\ http.pc = "idle"
  /\ http' = [http EXCEPT !.pc = "sleep", !.attempt = 0,
                          !.sleeps = Append(@, http.RETRY_BACKOFF_MS)]

\* httpClient.get(url) is called: let attempt = 0, totalAttempts = 1 + RETRY_ATTEMPTS
HttpGet ==
  /\ http.pc = "idle"
  /\ http' = [http EXCEPT !.pc = "request", !.attempt = 0]

\* await this.client.get(url, options) is over, lines 30-38: the response is
\* returned, or the request threw error and the catch counts the attempt, gives
\* up with that error or begins the backoff sleep.
HttpResponds ==
  /\ http.pc = "request"
  /\ \E ok \in BOOLEAN, error \in 1..MaxErrorKinds, pct \in JitterPercents,
        down \in BOOLEAN :
       LET asked == [http EXCEPT !.requests = @ + 1]
           attempt == http.attempt + 1
           totalAttempts == 1 + http.RETRY_ATTEMPTS
           backoff == WithJitter(http.RETRY_BACKOFF_MS * Pow2(attempt - 1), pct, down)
       IN http' =
            IF ok
              THEN [asked EXCEPT !.pc = "returned", !.returned = asked.requests]
              ELSE IF GiveUp(attempt, totalAttempts)
                THEN [asked EXCEPT !.pc = "thrown", !.attempt = attempt,
                                   !.failures = Append(@, error),
                                   !.thrown = error]
                ELSE [asked EXCEPT !.pc = "sleep", !.attempt = attempt,
                                   !.failures = Append(@, error),
                                   !.sleeps = Append(@, backoff)]

\* await sleep(backoff) is over, line 37
HttpSleepElapses ==
  /\ http.pc = "sleep"
  /\ http' = [http EXCEPT !.pc = "request"]

HttpFrame ==
  UNCHANGED <<ledgerVars, notifierVars, historyVars, schedVars, botVars, twinVars,
              detectorVars, parseVars, gamesVars,
              sessionVars>>

\* ---------------------------------------------------------------- detector
\* Numbers with a fraction are kept as fractions of integers: nSigma in tenths,
\* a mean or a delta as [num, den], and calculateStdDev's result by its square
\* [sq, den] (variance = sq / den), so that every comparison of the code is an
\* exact comparison of integers.
NSigmaChoices == {10, 30}
MinDeltaChoices == {10, 40}
MinPointsChoices == {2, 3}
WindowCcus == {90, 100, 110}
CurrentCcus == {100, 110, 129, 130, 135}

Abs(x) == IF x < 0 THEN -x ELSE x

\* values.reduce((sum, val) => sum + val, 0)
RECURSIVE SumOf(_)
SumOf(values) ==
  IF values = <<>> THEN 0 ELSE Head(values) + SumOf(Tail(values))

\* calculateMean, lines 11-14
CalculateMean(values) ==
  IF Len(values) = 0
    THEN [num |-> 0, den |-> 1]
    ELSE [num |-> SumOf(values), den |-> Len(values)]

\* values.reduce((sum, val) => sum + Math.pow(val - mean, 2), 0), times mean.den^2
RECURSIVE SumOfSquaredDeviations(_, _)
SumOfSquaredDeviations(values, mean) ==
  IF values = <<>>
    THEN 0
    ELSE LET deviation == Head(values) * mean.den - mean.num
         IN deviation * deviation + SumOfSquaredDeviations(Tail(values), mean)

\* calculateStdDev, lines 19-23: the square of the value returned
CalculateStdDev(values, mean) ==
  IF Len(values) <= 1
    THEN [sq |-> 0, den |-> 1]
    ELSE [sq |-> SumOfSquaredDeviations(values, mean),
          den |-> mean.den * mean.den * (Len(values) - 1)]

\* const MIN_DELTA_THRESHOLD = 10, line 34
MIN_DELTA_THRESHOLD == 10

\* Math.abs(delta) > nSigma * stddev || Math.abs(delta) >= MIN_DELTA_THRESHOLD
IsAnomalyByEitherTest(delta, stddev, nSigma) ==
  \/ 100 * delta.num * delta.num * stddev.den
       > nSigma * nSigma * stddev.sq * delta.den * delta.den
  \/ Abs(delta.num) >= MIN_DELTA_THRESHOLD * delta.den

\* isAnomaly, lines 32-38: both sides of the first comparison are squared
IsAnomaly(delta, stddev, nSigma) ==
  /\ 100 * delta.num * delta.num * stddev.den
       > nSigma * nSigma * stddev.sq * delta.den * delta.den
  /\ Abs(delta.num) >= MIN_DELTA_THRESHOLD * delta.den

\* getAnomalyDirection, lines 43-45
GetAnomalyDirection(delta) == IF delta.num > 0 THEN "up" ELSE "down"

\* snapshots.length < config.MIN_POINTS_IN_WINDOW - 1
TooFewPointsButOne(length, minPoints) == length < minPoints - 1

\* snapshots.length < config.MIN_POINTS_IN_WINDOW, line 56
TooFewPoints(length, minPoints) == length < minPoints

\* return null
Null == [kind |-> "null"]

\* analyzeGameForAnomalies, lines 50-109. read: what getSnapshots did, threw or
\* returned rows. The thresholds are config.ANOMALY_N_SIGMA and the constant of
\* isAnomaly; the anomaly_settings row is not read.
AnalyzeGameForAnomalies(read, currentCcu, config) ==
  IF read.throws
    THEN Null
    ELSE IF TooFewPoints(Len(read.rows), config.MIN_POINTS_IN_WINDOW)
      THEN Null
      ELSE LET mean == CalculateMean(read.rows)
               stddev == CalculateStdDev(read.rows, mean)
               delta == [num |-> currentCcu * mean.den - mean.num,
                         den |-> mean.den]
           IN IF stddev.sq = 0
                THEN Null
                ELSE IF ~IsAnomaly(delta, stddev, config.ANOMALY_N_SIGMA)
                  THEN Null
                  ELSE [kind |-> "anomaly", delta |-> delta, mean |-> mean,
                        stddev |-> stddev,
                        threshold |-> [nSigma |-> config.ANOMALY_N_SIGMA,
                                       stddev |-> stddev],
                        direction |-> GetAnomalyDirection(delta)]

\* anomaly_settings as initSchema leaves it (db.ts lines 70-71)
DefaultSettings == [n_sigma |-> 30, min_delta_threshold |-> 10]

NoAnalysis ==
  [made |-> FALSE, currentCcu |-> 0, readFailed |-> FALSE, result |-> Null]

\* No pass of analyzeAllGamesForAnomalies has returned
NoPass ==
  [made |-> FALSE, anomaliesFound |-> 0, errors |-> 0, readFailures |-> 0,
   classified |-> 0]

NoDetector ==
  [ANOMALY_N_SIGMA |-> 30, MIN_POINTS_IN_WINDOW |-> 3,
   settings |-> DefaultSettings,
   \* updated: updateAnomalySettings has committed
   updated |-> FALSE,
   \* window: the ccu of the game's snapshots of the last 24 hours, oldest first
   window |-> <<>>,
   \* ties: how many snapshots of the window have the latest timestamp
   ties |-> 1,
   \* call: the latest call of analyzeGameForAnomalies from outside the module
   call |-> NoAnalysis,
   \* pass: what the latest analyzeAllGamesForAnomalies returned, and how many
   \* getSnapshots reads failed in it
   passes |-> 0, pass |-> NoPass]

\* updateAnomalySettings(nSigma, minDeltaThreshold), db.ts lines 268-275
UpdateAnomalySettings ==
  \E nSigma \in NSigmaChoices, minDeltaThreshold \in MinDeltaChoices :
    /\ detector.settings # [n_sigma |-> nSigma,
                            min_delta_threshold |-> minDeltaThreshold]
    /\ detector' = [detector EXCEPT
                      !.settings = [n_sigma |-> nSigma,
                                    min_delta_threshold |-> minDeltaThreshold],
                      !.updated = TRUE]

\* analyzeGameForAnomalies(gameId, currentCcu) is called and returns
AnalyzeGame ==
  \E currentCcu \in CurrentCcus, throws \in BOOLEAN :
    detector' =
      [detector EXCEPT
         !.call = [made |-> TRUE, currentCcu |-> currentCcu,
                   readFailed |-> throws,
                   result |-> AnalyzeGameForAnomalies(
                                [throws |-> throws, rows |-> detector.window],
                                currentCcu, detector)]]

\* What analyzeAllGamesForAnomalies returns, the failed reads behind it and
\* the calls of analyzeGameForAnomalies it made
Pass(anomaliesFound, errorCount, readFailures, classified) ==
  [made |-> TRUE, anomaliesFound |-> anomaliesFound, errors |-> errorCount,
   readFailures |-> readFailures, classified |-> classified]

\* The rows the SELECT of lines 162-172 returns for the game: the join keeps
\* every snapshot whose timestamp equals the game's MAX(timestamp), one row
\* for each, with the ccu of that snapshot
GamesWithSnapshots(d) ==
  SubSeq(d.window, Len(d.window) - d.ties + 1, Len(d.window))

\* saveAnomaly has returned n times in the pass: n rows are in the ledger
RECURSIVE InsertAnomalies(_, _, _)
InsertAnomalies(tbl, timestamp, n) ==
  IF n = 0
    THEN tbl
    ELSE InsertAnomalies(InsertAnomaly(tbl, timestamp, 0), timestamp, n - 1)

Padded(seq, value, n) == seq \o [i \in 1..n |-> value]

RecordedTimes(timestamp, n) ==
  /\ anomalies' = InsertAnomalies(anomalies, timestamp, n)
  /\ accepted' = Padded(accepted, 0, n)
  /\ lastOutcome' = Padded(lastOutcome, "none", n)
  /\ failThenOk' = Padded(failThenOk, FALSE, n)
  /\ sentCredit' = Padded(sentCredit, 0, n)
  /\ flips' = Padded(flips, 0, n)
  /\ newSinceRead' = (newSinceRead \/ n > 0)

\* analyzeAllGamesForAnomalies, lines 156-206, over a catalog of the one game:
\* the SELECT of the games whose latest snapshot is of the last 2 hours throws
\* (outer catch: errors++), or lists no game, or lists the game once for each
\* snapshot of the latest timestamp; each listed row is analysed with its ccu.
\* readThrows: the listed rows in whose call getSnapshots throws, which
\* analyzeGameForAnomalies turns into null; saveThrows: the anomalies whose
\* insertAnomaly throws in saveAnomaly (inner catch: errors++).
AnalyzeAllGames ==
  /\ nPc = "idle"
  /\ \/ /\ \E errorCount \in {0, 1} :
              detector' = [detector EXCEPT !.passes = @ + 1,
                                           !.pass = Pass(0, errorCount, 0, 0)]
        /\ UNCHANGED <<ledgerVars, notifierVars, historyVars>>
     \/ /\ detector.window # <<>>
        /\ \E readThrows \in SUBSET (1..detector.ties) :
             LET listed == GamesWithSnapshots(detector)
                 found == {i \in (1..detector.ties) \ readThrows :
                             AnalyzeGameForAnomalies(
                               [throws |-> FALSE, rows |-> detector.window],
                               listed[i], detector).kind = "anomaly"}
             IN \E saveThrows \in SUBSET found :
                  /\ detector' =
                       [detector EXCEPT
                          !.passes = @ + 1,
                          !.pass = Pass(Cardinality(found \ saveThrows),
                                        Cardinality(saveThrows),
                                        Cardinality(readThrows),
                                        detector.ties)]
                  /\ \E timestamp \in 1..MaxTs :
                       RecordedTimes(timestamp, Cardinality(found \ saveThrows))
                  /\ UNCHANGED <<notifierVars, calls, crashes, prevReturned,
                                 thisCall>>

\* A pass within the number of passes explored
AnalyzeAllGamesForAnomalies ==
  /\ detector.passes < MaxPasses
  /\ AnalyzeAllGames

DetectorFrame ==
  UNCHANGED <<schedVars, botVars, twinVars, httpVars, parseVars, gamesVars,
              sessionVars>>

\* ------------------------------------------------- one scrape of one game
\* setTimeout(resolve, 2000 * attempt), line 195
RetryWait(attempt) == 2000 * attempt

\* What one attempt of the loop body can come to: "count" (the page shows the
\* number of players), "nocount" (it does not, or the game is not found),
\* "error" (goto, waitForTimeout, evaluate or title throws), "nopage" (newPage,
\* which is called outside the try, throws).
AttemptOutcomes == {"count", "nocount", "error", "nopage"}

\* The numbers of players a page can show that lines 80, 107 and 129 accept
OnlineCounts == {0, 57, 999999}

NoParse ==
  [pc |-> "idle", maxRetries |-> 3, attempt |-> 0, lastError |-> 0,
   \* failures: attempts that threw inside the try; waits: the waits begun
   \* before a retry, in ms; result: what the call returned, "null", "count"
   \* (then onlineCount is the number) or "thrown"
   failures |-> 0, waits |-> <<>>, result |-> "none", onlineCount |-> 0]

\* parseOnlineFromRoblox(robloxUrl, maxRetries) is called, lines 41-45: the
\* loop is entered with attempt = 1, or not at all
ParseOnlineFromRoblox ==
  /\ parse.pc = "idle"
  /\ parse' = IF 1 <= parse.maxRetries
                THEN [parse EXCEPT !.pc = "attempt", !.attempt = 1]
                ELSE [parse EXCEPT !.pc = "returned", !.attempt = 1,
                                   !.result = "null"]

\* One pass of the loop body is over, lines 45-199, with its catch and finally
ParseAttemptEnds ==
  /\ parse.pc = "attempt"
  /\ \E outcome \in AttemptOutcomes, onlineCount \in OnlineCounts,
        error \in 1..MaxErrorKinds :
       parse' =
         CASE outcome = "count" ->
                [parse EXCEPT !.pc = "returned", !.result = "count",
                              !.onlineCount = onlineCount]
           [] outcome = "nocount" ->
                [parse EXCEPT !.pc = "returned", !.result = "null"]
           [] outcome = "nopage" ->
                [parse EXCEPT !.pc = "thrown", !.result = "thrown"]
           [] outcome = "error" ->
                IF parse.attempt < parse.maxRetries
                  THEN [parse EXCEPT !.pc = "wait", !.failures = @ + 1,
                                     !.lastError = error,
                                     !.waits = Append(@, RetryWait(parse.attempt))]
                  ELSE [parse EXCEPT !.pc = "returned", !.failures = @ + 1,
                                     !.lastError = error,
                                     !.attempt = @ + 1, !.result = "null"]

\* The timer of line 195 fires: attempt++ and the next pass begins
ParseWaitElapses ==
  /\ parse.pc = "wait"
  /\ parse' = [parse EXCEPT !.pc = "attempt", !.attempt = @ + 1]

ParseFrame ==
  UNCHANGED <<ledgerVars, notifierVars, historyVars, schedVars, botVars, twinVars,
              httpVars, detectorVars, gamesVars,
              sessionVars>>

\* -------------------------------------------------------------- table games
\* The smallest element of a non-empty set of row ids
FirstOf(ids) == CHOOSE i \in ids : \A j \in ids : i <= j

\* SELECT id FROM games WHERE url = ?  (.get: the first row, 0 for undefined)
ExistingByUrl(tbl, url) ==
  LET found == {i \in Ids(tbl) : tbl[i].url = url}
  IN IF found = {} THEN 0 ELSE FirstOf(found)

\* SELECT id, source_id FROM games WHERE title = ?
ExistingByTitle(tbl, title) ==
  LET found == {i \in Ids(tbl) : tbl[i].title = title}
  IN IF found = {} THEN 0 ELSE FirstOf(found)

\* SELECT id FROM games WHERE source_id = ?
ExistingBySourceId(tbl, source_id) ==
  LET found == {i \in Ids(tbl) : tbl[i].source_id = source_id}
  IN IF found = {} THEN 0 ELSE FirstOf(found)

\* source_id TEXT UNIQUE (line 23) and idx_games_url_unique (line 31)
ConstraintsHold(tbl) ==
  \A i, j \in Ids(tbl) :
    i # j => tbl[i].source_id # tbl[j].source_id /\ tbl[i].url # tbl[j].url

\* A statement that would break a constraint throws and writes nothing
Written(tbl, after) ==
  IF ConstraintsHold(after)
    THEN [rows |-> after, threw |-> FALSE]
    ELSE [rows |-> tbl, threw |-> TRUE]

\* UPDATE games SET url=@url WHERE id=@id
UpdateUrl(tbl, id, url) ==
  Written(tbl, [i \in Ids(tbl) |-> IF i = id THEN [tbl[i] EXCEPT !.url = url]
                                            ELSE tbl[i]])

\* UPDATE games SET title=@title, url=@url WHERE source_id=@source_id
UpdateTitleAndUrl(tbl, game) ==
  Written(tbl, [i \in Ids(tbl) |->
                  IF tbl[i].source_id = game.source_id
                    THEN [tbl[i] EXCEPT !.title = game.title, !.url = game.url]
                    ELSE tbl[i]])

\* INSERT INTO games (source_id, title, url, ...) VALUES (...)
InsertGame(tbl, game) == Written(tbl, Append(tbl, game))

\* upsertGame as it was before the lookups by url and by title and before the
\* unique index on url: by source_id alone
UpsertGameBySourceIdOnly(tbl, game) ==
  LET existing == ExistingBySourceId(tbl, game.source_id)
  IN IF existing # 0
       THEN [rows |-> [i \in Ids(tbl) |->
                         IF i = existing
                           THEN [tbl[i] EXCEPT !.title = game.title,
                                               !.url = game.url]
                           ELSE tbl[i]],
             threw |-> FALSE, id |-> existing]
       ELSE [rows |-> Append(tbl, game), threw |-> FALSE, id |-> Len(tbl) + 1]

\* upsertGame, lines 83-146: the table afterwards, whether a statement threw,
\* and the id returned
UpsertGame(tbl, game) ==
  LET existingByUrl == ExistingByUrl(tbl, game.url)
      existingByTitle == ExistingByTitle(tbl, game.title)
      existingBySourceId == ExistingBySourceId(tbl, game.source_id)
  IN IF existingByUrl # 0
       THEN [rows |-> tbl, threw |-> FALSE, id |-> existingByUrl]
       ELSE IF existingByTitle # 0
         THEN LET w == UpdateUrl(tbl, existingByTitle, game.url)
              IN [rows |-> w.rows, threw |-> w.threw, id |-> existingByTitle]
         ELSE IF existingBySourceId # 0
           THEN LET w == UpdateTitleAndUrl(tbl, game)
                IN [rows |-> w.rows, threw |-> w.threw, id |-> existingBySourceId]
           ELSE LET w == InsertGame(tbl, game)
                IN [rows |-> w.rows, threw |-> w.threw, id |-> Len(w.rows)]

\* upsertGameWithStatus, lines 148-212: as upsertGame, with isNew and skipped
UpsertGameWithStatus(tbl, game) ==
  LET existingByUrl == ExistingByUrl(tbl, game.url)
      existingByTitle == ExistingByTitle(tbl, game.title)
      existingBySourceId == ExistingBySourceId(tbl, game.source_id)
  IN IF existingByUrl # 0
       THEN [rows |-> tbl, threw |-> FALSE, gameId |-> existingByUrl,
             isNew |-> FALSE, skipped |-> TRUE]
       ELSE IF existingByTitle # 0
         THEN LET w == UpdateUrl(tbl, existingByTitle, game.url)
              IN [rows |-> w.rows, threw |-> w.threw, gameId |-> existingByTitle,
                  isNew |-> FALSE, skipped |-> FALSE]
         ELSE IF existingBySourceId # 0
           THEN LET w == UpdateTitleAndUrl(tbl, game)
                IN [rows |-> w.rows, threw |-> w.threw,
                    gameId |-> existingBySourceId,
                    isNew |-> FALSE, skipped |-> FALSE]
           ELSE LET w == InsertGame(tbl, game)
                IN [rows |-> w.rows, threw |-> w.threw, gameId |-> Len(w.rows),
                    isNew |-> TRUE, skipped |-> FALSE]

\* The games a caller can pass: ids, titles and urls of the external catalog
GameInputs == [source_id : 1..MaxKeys, title : 1..MaxKeys, url : 1..MaxKeys]

\* table games after initSchema, and no call made yet
NoGames ==
  [rows |-> <<>>,
   last |-> [fn |-> "none", game |-> [source_id |-> 0, title |-> 0, url |-> 0],
             id |-> 0, isNew |-> FALSE, skipped |-> FALSE, threw |-> FALSE]]

\* upsertGame(game) is called and returns or throws
UpsertGameCall ==
  \E game \in GameInputs :
    LET r == UpsertGame(games.rows, game)
    IN games' = [rows |-> r.rows,
                 last |-> [fn |-> "upsertGame", game |-> game, id |-> r.id,
                           isNew |-> FALSE, skipped |-> FALSE, threw |-> r.threw]]

\* upsertGameWithStatus(game) is called and returns or throws
UpsertGameWithStatusCall ==
  \E game \in GameInputs :
    LET r == UpsertGameWithStatus(games.rows, game)
    IN games' = [rows |-> r.rows,
                 last |-> [fn |-> "upsertGameWithStatus", game |-> game,
                           id |-> r.gameId, isNew |-> r.isNew,
                           skipped |-> r.skipped, threw |-> r.threw]]

GamesFrame ==
  UNCHANGED <<ledgerVars, notifierVars, historyVars, schedVars, botVars, twinVars,
              httpVars, detectorVars, parseVars, sessionVars>>

\* -------------------------------------------------- the pipeline of index.ts
\* pc: "idle" (no process), "populate" (await populate()), "analyse",
\* "analysed", "notifying" (await sendAnomalyNotifications()), "done".
\* undelivered: rows with notified = 0 right after the analysis of the run;
\* invoked: sendAnomalyNotifications was called in the run
NoMain ==
  [pc |-> "idle", runs |-> 0, analysed |-> FALSE, anomaliesFound |-> 0,
   undelivered |-> 0, invoked |-> FALSE]

\* What populate leaves as the 24 hour window of the game
MainWindows == {<<90, 90, 110>>, <<100, 100, 100>>}

\* The process is started: main() runs to await populate(), lines 13-22
MainStarts ==
  /\ main.pc \in {"idle", "done"}
  /\ nPc = "idle"
  /\ main.runs < MaxMainRuns
  /\ main' = [NoMain EXCEPT !.pc = "populate", !.runs = main.runs + 1]
  /\ UNCHANGED <<ledgerVars, notifierVars, historyVars, detectorVars>>

\* await populate() is over: it rejects, and the catch of line 43 logs
\* 'Populate failed', or it resolves with the snapshots it wrote
PopulateSettles ==
  /\ main.pc = "populate"
  /\ \/ /\ main' = [main EXCEPT !.pc = "done"]
        /\ UNCHANGED detector
     \/ \E window \in MainWindows :
          /\ detector' = [detector EXCEPT !.window = window]
          /\ main' = [main EXCEPT !.pc = "analyse"]
  /\ UNCHANGED <<ledgerVars, notifierVars, historyVars>>

\* const anomalyResult = analyzeAllGamesForAnomalies(), line 27
MainAnalyses ==
  /\ main.pc = "analyse"
  /\ AnalyzeAllGames
  /\ main' = [main EXCEPT !.pc = "analysed", !.analysed = TRUE,
                          !.anomaliesFound = detector'.pass.anomaliesFound,
                          !.undelivered = Cardinality(UnnotifiedIds(anomalies'))]

\* if (anomalyResult.anomaliesFound > 0) await sendAnomalyNotifications(),
\* lines 34-41
MainDecides ==
  /\ main.pc = "analysed"
  /\ IF main.anomaliesFound > 0
       THEN /\ Invoke
            /\ main' = [main EXCEPT !.pc = "notifying", !.invoked = TRUE]
       ELSE /\ main' = [main EXCEPT !.pc = "done"]
            /\ UNCHANGED <<ledgerVars, notifierVars, historyVars>>
  /\ UNCHANGED detector

\* sendAnomalyNotifications has returned; the finally closes the browser
MainReturns ==
  /\ main.pc = "notifying"
  /\ nPc = "idle"
  /\ main' = [main EXCEPT !.pc = "done"]
  /\ UNCHANGED <<ledgerVars, notifierVars, historyVars, detectorVars>>

\* ------------------------- an invocation of the notifier by another process
\* The locals of the invocation; acceptedFrom.first, .second: the anomalies
\* the channel accepted from the invocation of this process and from the other
NoOverlap ==
  [pc |-> "idle", unnotifiedAnomalies |-> <<>>, idx |-> 1, sent |-> 0,
   errors |-> 0, resp |-> FALSE, called |-> FALSE,
   acceptedFrom |-> [first |-> {}, second |-> {}]]

\* The invocation of this process awaits a send or the delay between messages
FirstAwaits == nPc \in {"sending", "answered", "delay"}

\* sendAnomalyNotifications is called in the other process while the first
\* awaits: lines 97-108
SecondInvoke ==
  /\ overlap.pc = "idle"
  /\ ~overlap.called
  /\ FirstAwaits
  /\ \E readThrows \in BOOLEAN :
       IF readThrows
         THEN overlap' = [overlap EXCEPT !.pc = "returned", !.called = TRUE,
                                         !.errors = 1]
         ELSE \E batch \in GetUnnotifiedAnomalies(anomalies) :
                overlap' = [overlap EXCEPT
                              !.pc = IF batch = <<>> THEN "returned" ELSE "loop",
                              !.called = TRUE,
                              !.unnotifiedAnomalies = batch]
  /\ UNCHANGED <<ledgerVars, notifierVars, historyVars>>

\* The top of its for-of loop, lines 110-113 and 136-143
SecondLoopTop ==
  /\ overlap.pc = "loop"
  /\ IF overlap.idx > Len(overlap.unnotifiedAnomalies)
       THEN overlap' = [overlap EXCEPT !.pc = "returned"]
       ELSE \E formatThrows \in BOOLEAN :
              overlap' = IF formatThrows
                           THEN [overlap EXCEPT !.errors = @ + 1, !.idx = @ + 1]
                           ELSE [overlap EXCEPT !.pc = "sending"]
  /\ UNCHANGED <<ledgerVars, notifierVars, historyVars>>

\* sendTelegramNotification of the other process, lines 53-91
SecondChannelAnswers ==
  /\ overlap.pc = "sending"
  /\ LET id == overlap.unnotifiedAnomalies[overlap.idx]
     IN \E ok \in BOOLEAN :
          /\ accepted' = [accepted EXCEPT ![id] = IF ok THEN @ + 1 ELSE @]
          /\ overlap' = [overlap EXCEPT
                           !.pc = "answered", !.resp = ok,
                           !.acceptedFrom.second = IF ok THEN @ \cup {id} ELSE @]
  /\ UNCHANGED <<anomalies, notifierVars, historyVars>>

\* Lines 113-133 in the other process
SecondSendReturns ==
  /\ overlap.pc = "answered"
  /\ \E markThrows \in BOOLEAN :
       LET id == overlap.unnotifiedAnomalies[overlap.idx]
           eff == OnSendResult(overlap.resp, markThrows)
       IN /\ (markThrows => overlap.resp)
          /\ anomalies' = IF eff.mark /\ ~markThrows
                            THEN MarkAnomalyNotified(anomalies, id)
                            ELSE anomalies
          /\ overlap' = [overlap EXCEPT
                           !.sent = @ + eff.sentInc,
                           !.errors = @ + eff.errInc,
                           !.resp = FALSE,
                           !.pc = IF eff.delay THEN "delay" ELSE "loop",
                           !.idx = IF eff.delay THEN @ ELSE @ + 1]
          /\ flips' = [flips EXCEPT ![id] =
                         IF anomalies[id].notified = 0 /\ anomalies'[id].notified = 1
                           THEN @ + 1 ELSE @]
  /\ UNCHANGED <<accepted, notifierVars, calls, crashes, lastOutcome, failThenOk,
                 sentCredit, newSinceRead, prevReturned, thisCall>>

\* Its delay of line 125 is over
SecondDelayElapses ==
  /\ overlap.pc = "delay"
  /\ overlap' = [overlap EXCEPT !.pc = "loop", !.idx = @ + 1]
  /\ UNCHANGED <<ledgerVars, notifierVars, historyVars>>

\* The send of this process, with the sender of the accepted message kept
FirstChannelAnswers ==
  /\ ChannelAnswers
  /\ overlap' = [overlap EXCEPT
                   !.acceptedFrom.first =
                      IF resp' THEN @ \cup {unnotifiedAnomalies[idx]} ELSE @]

\* ------------------------------------------ the settings dialogue of the bot
\* The messages typed into the chat, with what parseFloat and parseInt make of
\* them: 2.5 -> 2.5 and 2, 7 -> 7 and 7, 40 -> 40 and 40, abc -> NaN
Texts == {"2.5", "7", "40", "abc", "cancel", "reset"}

IsNaN(text) == text \in {"abc", "cancel", "reset"}

\* parseFloat(text), in tenths
ParseFloat(text) ==
  CASE text = "2.5" -> 25
    [] text = "7" -> 70
    [] text = "40" -> 400
    [] OTHER -> 0

\* parseInt(text)
ParseInt(text) ==
  CASE text = "2.5" -> 2
    [] text = "7" -> 7
    [] text = "40" -> 40
    [] OTHER -> 0

\* private waitingForNSigma = false, ... (lines 16-18); custom_message: the
\* column of the settings row; consumedBy: the branch of the text handler that
\* took the latest text message
NoInput ==
  [waitingForNSigma |-> FALSE, waitingForMinDelta |-> FALSE,
   waitingForCustomMessage |-> FALSE, custom_message |-> "null",
   consumedBy |-> "none", selected |-> "none"]

\* handleSettingsNSigma, lines 1083-1125
HandleSettingsNSigma ==
  /\ input' = [input EXCEPT !.waitingForNSigma = TRUE,
                            !.waitingForMinDelta = FALSE,
                            !.selected = "nSigma"]
  /\ UNCHANGED detector

\* handleSettingsMinDelta, lines 1127-1169
HandleSettingsMinDelta ==
  /\ input' = [input EXCEPT !.waitingForMinDelta = TRUE,
                            !.waitingForNSigma = FALSE,
                            !.selected = "minDelta"]
  /\ UNCHANGED detector

\* handleSettingsCustomMessage, lines 1171-1226
HandleSettingsCustomMessage ==
  /\ input' = [input EXCEPT !.waitingForCustomMessage = TRUE,
                            !.waitingForNSigma = FALSE,
                            !.waitingForMinDelta = FALSE,
                            !.selected = "customMessage"]
  /\ UNCHANGED detector

\* bot.on('text'), lines 296-403, for a text that is none of the keyboard's
OnText ==
  \E text \in Texts :
    IF input.waitingForNSigma
      THEN IF IsNaN(text) \/ ParseFloat(text) < 10 \/ ParseFloat(text) > 100
             THEN /\ input' = [input EXCEPT !.consumedBy = "nSigma"]
                  /\ UNCHANGED detector
             ELSE /\ detector' = [detector EXCEPT
                                    !.settings.n_sigma = ParseFloat(text),
                                    !.updated = TRUE]
                  /\ input' = [input EXCEPT !.waitingForNSigma = FALSE,
                                            !.consumedBy = "nSigma"]
      ELSE IF input.waitingForMinDelta
        THEN IF IsNaN(text) \/ ParseInt(text) < 1 \/ ParseInt(text) > 100
               THEN /\ input' = [input EXCEPT !.consumedBy = "minDelta"]
                    /\ UNCHANGED detector
               ELSE /\ detector' = [detector EXCEPT
                                      !.settings.min_delta_threshold = ParseInt(text),
                                      !.updated = TRUE]
                    /\ input' = [input EXCEPT !.waitingForMinDelta = FALSE,
                                              !.consumedBy = "minDelta"]
        ELSE IF input.waitingForCustomMessage
          THEN /\ input' = [input EXCEPT
                              !.waitingForCustomMessage = FALSE,
                              !.consumedBy = "customMessage",
                              !.custom_message =
                                 CASE text = "cancel" -> @
                                   [] text = "reset" -> "null"
                                   [] OTHER -> text]
               /\ UNCHANGED detector
          ELSE /\ input' = [input EXCEPT !.consumedBy = "none"]
               /\ UNCHANGED detector

\* ------------------------------------------- 'parse games' and its cancel
ParseCommands == 1..MaxParseCommands

\* isGameParsingActive (line 14); handlers[h]: where the h-th call of
\* handleParseGames stands: "none", "answering" (await answerCbQuery),
\* "announcing" (await editMessageText / reply of lines 473-489), "parsing"
\* (await parseNewGames()), "returned", "rejected"; inFlight: executions of
\* parseNewGames between their call and their return
NoGameParsing ==
  [isGameParsingActive |-> FALSE,
   handlers |-> [h \in ParseCommands |-> "none"],
   inFlight |-> 0, cancels |-> 0]

\* handleParseGames is called, lines 429-470, by a button of an inline
\* keyboard (viaCallback) or by a text of the persistent keyboard
HandleParseGames(h, viaCallback) ==
  /\ gameParsing.handlers[h] = "none"
  /\ \A k \in ParseCommands : k < h => gameParsing.handlers[k] # "none"
  /\ gameParsing' =
       IF gameParsing.isGameParsingActive
         THEN [gameParsing EXCEPT !.handlers[h] = "rejected"]
         ELSE IF viaCallback
           THEN [gameParsing EXCEPT !.handlers[h] = "answering"]
           ELSE [gameParsing EXCEPT !.handlers[h] = "announcing",
                                    !.isGameParsingActive = TRUE]

\* await ctx.answerCbQuery is over, resolved or rejected (lines 462-467); then
\* this.isGameParsingActive = true (line 470)
CallbackAnswered(h) ==
  /\ gameParsing.handlers[h] = "answering"
  /\ gameParsing' = [gameParsing EXCEPT !.handlers[h] = "announcing",
                                        !.isGameParsingActive = TRUE]

\* The message of lines 473-489 is out and parseNewGames() is called (line
\* 495), or the message failed and the catch of line 541 resets the flag
Announced(h) ==
  /\ gameParsing.handlers[h] = "announcing"
  /\ \E throws \in BOOLEAN :
       gameParsing' =
         IF throws
           THEN [gameParsing EXCEPT !.handlers[h] = "returned",
                                    !.isGameParsingActive = FALSE]
           ELSE [gameParsing EXCEPT !.handlers[h] = "parsing",
                                    !.inFlight = @ + 1]

\* await parseNewGames() is over, lines 495-539: nothing more if the flag was
\* reset meanwhile, else the flag is reset and the result reported
ParseNewGamesSettles(h) ==
  /\ gameParsing.handlers[h] = "parsing"
  /\ gameParsing' = [gameParsing EXCEPT !.handlers[h] = "returned",
                                        !.inFlight = @ - 1,
                                        !.isGameParsingActive = FALSE]

\* handleCancelGameParsing, lines 1438-1478
HandleCancelGameParsing ==
  /\ gameParsing.cancels < MaxCancels
  /\ gameParsing' = [gameParsing EXCEPT !.cancels = @ + 1,
                                        !.isGameParsingActive = FALSE]

\* No process, no other invocation, no dialogue, no command
InitSession ==
  /\ main = NoMain
  /\ overlap = NoOverlap
  /\ input = NoInput
  /\ gameParsing = NoGameParsing

\* --------------------------------------------------------------- scheduler
Runs == 1..MaxRuns

\* setTimeout(resolve, 2000) of startCircularParsingForDuration
DURATION_PAUSE_MS == 2000
\* setTimeout(resolve, 1000) of circularOnlineParsing
CIRCULAR_PAUSE_MS == 1000
\* const durationMs = 24 * 60 * 60 * 1000 of handleFindAnomalies
DAY_MS == 86400000

\* The clock is observed every TickMs
TickMs == CIRCULAR_PAUSE_MS

\* parseOnlineFromRoblox resolves to null: no count was read
NoOnlineCount == -1

NoRun ==
  [pc |-> "none", mode |-> "duration", durationMs |-> 0, totalGames |-> 0,
   currentIndex |-> 0, successfulParses |-> 0, failedParses |-> 0, errors |-> 0,
   startTime |-> 0, wake |-> 0,
   \* what the run has done
   cursorSeq |-> <<>>, progressCalls |-> 0, scrapes |-> 0, snapshots |-> 0,
   stopSeenAt |-> -1, exit |-> "none",
   \* lastItem: how the item before the running pause ended; stopAsks: calls of shouldStop();
   \* pauses: politeness sleeps begun; lastPauseMs: length of the latest one;
   \* classified: calls of analyzeGameForAnomalies; reported: the counters the
   \* latest onProgress call was given
   lastItem |-> "none", stopAsks |-> 0, pauses |-> 0, lastPauseMs |-> 0,
   classified |-> 0, reported |-> [successfulParses |-> 0, failedParses |-> 0],
   \* catalogReads: calls of getAllGamesFromDb
   catalogReads |-> 0,
   \* let totalCycles = 0 (line 344); lastReading: what the scrape of the item
   \* before the running pause resolved to
   totalCycles |-> 0, lastReading |-> NoOnlineCount]

\* Run r is between its call and its return
Active(r) == run[r].pc \in {"entry", "top", "item", "pause"}

Processed(rec) == rec.successfulParses + rec.failedParses

\* The loop condition tested with <= instead of <
WithinDurationInclusive(t, startTime, durationMs) ==
  t - startTime <= durationMs

\* The loop condition with its comparison turned round
WithinDurationReversed(t, startTime, durationMs) ==
  t - startTime > durationMs

\* while (Date.now() - startTime < durationMs)
WithinDuration(t, startTime, durationMs) ==
  t - startTime < durationMs

\* currentIndex = currentIndex + 1, the wrap-around left out
NextIndexNoWrap(currentIndex, totalGames) ==
  currentIndex + 1

\* currentIndex = (currentIndex + 1) % (the number of rows of games now)
NextIndexOverStore(currentIndex, totalGames) ==
  IF catalog = 0 THEN 0 ELSE (currentIndex + 1) % catalog

\* currentIndex = (currentIndex + 1) % totalGames
NextIndex(currentIndex, totalGames) ==
  (currentIndex + 1) % totalGames

ItemOutcomes == {"saved", "null", "throws"}

\* A null reading goes uncounted
ItemEffectNullSkipped(outcome) ==
  [outcome |-> outcome,
   successInc |-> IF outcome = "saved" THEN 1 ELSE 0,
   failedInc |-> IF outcome = "throws" THEN 1 ELSE 0,
   errorsInc |-> IF outcome = "throws" THEN 1 ELSE 0,
   snapshotInc |-> IF outcome = "saved" THEN 1 ELSE 0]

\* A null reading is counted failed without an entry in errors
ItemEffectNullUnlisted(outcome) ==
  [outcome |-> outcome,
   successInc |-> IF outcome = "saved" THEN 1 ELSE 0,
   failedInc |-> IF outcome = "saved" THEN 0 ELSE 1,
   errorsInc |-> IF outcome = "throws" THEN 1 ELSE 0,
   snapshotInc |-> IF outcome = "saved" THEN 1 ELSE 0]

\* A failed item pushes nothing to errors
ItemEffectNoDiagnostic(outcome) ==
  [outcome |-> outcome,
   successInc |-> IF outcome = "saved" THEN 1 ELSE 0,
   failedInc |-> IF outcome = "saved" THEN 0 ELSE 1,
   errorsInc |-> 0,
   snapshotInc |-> IF outcome = "saved" THEN 1 ELSE 0]

\* Lines 389-407 (291-309): a non-null reading is saved and counted as a
\* success; a null reading, or an exception of the scrape or of the snapshot
\* write, is counted as a failure with one entry pushed to errors.
ItemEffect(outcome) ==
  [outcome |-> outcome,
   successInc |-> IF outcome = "saved" THEN 1 ELSE 0,
   failedInc |-> IF outcome = "saved" THEN 0 ELSE 1,
   errorsInc |-> IF outcome = "saved" THEN 0 ELSE 1,
   snapshotInc |-> IF outcome = "saved" THEN 1 ELSE 0]

PauseMs(mode) == IF mode = "duration" THEN DURATION_PAUSE_MS ELSE CIRCULAR_PAUSE_MS

\* The end of one iteration, lines 409-427 (311-315): the cursor advances and
\* the pause begins.
AfterItem(rec, eff) ==
  [rec EXCEPT !.successfulParses = @ + eff.successInc,
              !.failedParses = @ + eff.failedInc,
              !.errors = @ + eff.errorsInc,
              !.snapshots = @ + eff.snapshotInc,
              !.currentIndex = NextIndex(rec.currentIndex, rec.totalGames),
              !.wake = now + PauseMs(rec.mode),
              !.lastItem = eff.outcome,
              !.pauses = @ + 1,
              !.lastPauseMs = PauseMs(rec.mode),
              !.pc = "pause"]

\* The counters onProgress is given with the item that
\* begins, and the item's own outcome added in
ProgressCountersWithItem(rec) ==
  [successfulParses |-> rec.successfulParses + 1, failedParses |-> rec.failedParses]

\* onProgress(currentIndex + 1, totalGames, game.title, successfulParses,
\* failedParses), lines 378-380 (280-282): the counters as they stand when the
\* item begins
ProgressCounters(rec) ==
  [successfulParses |-> rec.successfulParses, failedParses |-> rec.failedParses]

\* The early return of an empty catalog with errors: []
EnterEmptyWithoutEntry(r) ==
  /\ run[r].pc = "entry"
  /\ run' = [run EXCEPT ![r] =
               IF catalog = 0
                 THEN [@ EXCEPT !.pc = "done", !.totalGames = 0, !.errors = 0,
                                !.exit = "empty", !.catalogReads = @ + 1]
                 ELSE [@ EXCEPT !.pc = "top", !.totalGames = catalog,
                                !.startTime = now, !.currentIndex = 0,
                                !.catalogReads = @ + 1]]
  /\ UNCHANGED <<catalog, now>>

\* The call of a scheduler entry point: the catalog is read once; an empty
\* catalog is returned at once with one entry in errors (lines 339-362, 252-266).
Enter(r) ==
  /\ run[r].pc = "entry"
  /\ run' = [run EXCEPT ![r] =
               IF catalog = 0
                 THEN [@ EXCEPT !.pc = "done", !.totalGames = 0, !.errors = 1,
                                !.exit = "empty", !.catalogReads = @ + 1]
                 ELSE [@ EXCEPT !.pc = "top", !.totalGames = catalog,
                                !.startTime = now, !.currentIndex = 0,
                                !.catalogReads = @ + 1]]
  /\ UNCHANGED <<catalog, now>>

\* The loop top, lines 365-380 (268-282). stop: what shouldStop() returns if it
\* is asked. The duration bound is tested first; then shouldStop; then the item
\* begins: onProgress is called and the scrape is started. progressThrows: the
\* callback throws, which the catch counts as a failed item. mayBegin: the
\* explored horizon admits one more item.
LoopTopOf(r, stop, mayBegin) ==
  /\ run[r].pc = "top"
  /\ LET rec == run[r] IN
       IF rec.mode = "duration" /\ ~WithinDuration(now, rec.startTime, rec.durationMs)
         THEN run' = [run EXCEPT ![r] = [rec EXCEPT !.pc = "done", !.exit = "elapsed"]]
         ELSE IF stop
           THEN run' = [run EXCEPT ![r] =
                          [rec EXCEPT !.pc = "done", !.exit = "stopped",
                                      !.stopAsks = @ + 1,
                                      !.stopSeenAt = Len(rec.cursorSeq)]]
           ELSE /\ mayBegin
                /\ \E progressThrows \in BOOLEAN :
                     LET begun == [rec EXCEPT
                                     !.stopAsks = @ + 1,
                                     !.cursorSeq = Append(@, rec.currentIndex),
                                     !.progressCalls = @ + 1,
                                     !.reported = ProgressCounters(rec)]
                     IN run' = [run EXCEPT ![r] =
                                  IF progressThrows
                                    THEN AfterItem(begun, ItemEffect("throws"))
                                    ELSE [begun EXCEPT !.pc = "item"]]
  /\ UNCHANGED <<catalog, now>>

\* await parseOnlineFromRoblox(robloxUrl) is over, lines 386-407 (288-309)
ScrapeReturns(r) ==
  /\ run[r].pc = "item"
  /\ \E outcome \in ItemOutcomes :
       run' = [run EXCEPT ![r] =
                 AfterItem([run[r] EXCEPT !.scrapes = @ + 1], ItemEffect(outcome))]
  /\ UNCHANGED <<catalog, now>>

\* The test of line 389 (291) as a truthiness test: if (onlineCount)
ReadingOutcomeTruthy(onlineCount) ==
  IF onlineCount > 0 THEN "saved" ELSE "null"

\* if (onlineCount !== null), line 389 (291): every number, 0 included, takes
\* the branch that saves the snapshot
ReadingOutcome(onlineCount) ==
  IF onlineCount # NoOnlineCount THEN "saved" ELSE "null"

\* await parseOnlineFromRoblox(robloxUrl) is over, lines 386-407 (288-309), with
\* the value it resolved to. throws: the scrape rejects, or the INSERT of
\* saveOnlineSnapshot throws (lines 223-228); the catch counts the item failed.
ScrapeResolves(r) ==
  /\ run[r].pc = "item"
  /\ \E onlineCount \in OnlineCounts \cup {NoOnlineCount}, throws \in BOOLEAN :
       LET outcome == IF throws THEN "throws" ELSE ReadingOutcome(onlineCount)
           after == AfterItem([run[r] EXCEPT !.scrapes = @ + 1], ItemEffect(outcome))
       IN run' = [run EXCEPT ![r] = [after EXCEPT !.lastReading = onlineCount]]
  /\ UNCHANGED <<catalog, now>>

\* The timer of the pause has fired, line 427 (315)
PauseElapses(r) ==
  /\ run[r].pc = "pause"
  /\ now >= run[r].wake
  /\ run' = [run EXCEPT ![r] = [@ EXCEPT !.pc = "top", !.lastItem = "none",
                                          !.lastReading = NoOnlineCount]]
  /\ UNCHANGED <<catalog, now>>

\* Date.now() moves on
Tick(mayAdvance) ==
  /\ \/ mayAdvance
     \/ \E r \in Runs : run[r].pc = "pause" /\ now < run[r].wake
  /\ now' = now + TickMs
  /\ UNCHANGED <<catalog, run>>

\* The bot's fields as the constructor leaves them (telegram.ts lines 13-33)
FreshStats ==
  [totalProcessed |-> 0, successfulParses |-> 0, failedParses |-> 0,
   completedCycles |-> 0, lastGameIndex |-> -1]

\* No script is written and no request is under way
InitRest ==
  /\ script = <<>>
  /\ http = NoRequest
  /\ detector = NoDetector
  /\ parse = NoParse
  /\ games = NoGames
  /\ InitSession

InitBotFields ==
  /\ isParsingActive = FALSE
  /\ parsingStartTime = 0
  /\ parsingStats = FreshStats
  /\ stopPending = [r \in Runs |-> FALSE]
  /\ rejected = 0

InitNoRuns ==
  /\ catalog = 0
  /\ now = 0
  /\ run = [r \in Runs |-> NoRun]
  /\ InitBotFields
  /\ InitRest

\* One call of an entry point with a caller-supplied shouldStop predicate
InitScheduler ==
  /\ InitLedgerAndNotifier
  /\ catalog \in 0..MaxGames
  /\ now = 0
  /\ \E mode \in {"duration", "circular"}, d \in 0..MaxDurationTicks :
       run = [r \in Runs |->
                IF r = 1
                  THEN [NoRun EXCEPT !.pc = "entry", !.mode = mode,
                                     !.durationMs = IF mode = "duration"
                                                      THEN d * TickMs ELSE 0]
                  ELSE NoRun]
  /\ InitBotFields
  /\ InitRest

SchedulerClock == MaxClockTicks * TickMs

\* The run is explored for SchedulerClock milliseconds from its start
WithinHorizon(r) == Active(r) /\ now - run[r].startTime < SchedulerClock

SchedulerFrame ==
  UNCHANGED <<ledgerVars, notifierVars, historyVars, botVars, twinVars, httpVars,
              detectorVars, parseVars, gamesVars,
              sessionVars>>

EnterStep == Enter(1) /\ SchedulerFrame
LoopTopStep ==
  /\ \E stop \in BOOLEAN : LoopTopOf(1, stop, WithinHorizon(1))
  /\ SchedulerFrame
\* The loop top of a run whose shouldStop() answers false
LoopTopUnstopped == LoopTopOf(1, FALSE, WithinHorizon(1)) /\ SchedulerFrame
ScrapeStep == ScrapeReturns(1) /\ SchedulerFrame
PauseStep == PauseElapses(1) /\ SchedulerFrame
TickStep == Tick(WithinHorizon(1)) /\ SchedulerFrame

NextScheduler ==
  \/ EnterStep
  \/ LoopTopStep
  \/ ScrapeStep
  \/ PauseStep
  \/ TickStep

SpecScheduler == InitScheduler /\ [][NextScheduler]_vars

\* Every scrape call returns, timers fire and the clock advances; nothing
\* obliges shouldStop() ever to answer true.
FairSpecScheduler ==
  /\ SpecScheduler
  /\ WF_vars(EnterStep)
  /\ WF_vars(LoopTopUnstopped)
  /\ WF_vars(ScrapeStep)
  /\ WF_vars(PauseStep)
  /\ WF_vars(TickStep)

\* --------------------------------------------------------------------- bot
BotClock == MaxBotClockTicks * TickMs

BotFrame ==
  UNCHANGED <<ledgerVars, notifierVars, historyVars, twinVars, httpVars,
              detectorVars, parseVars, gamesVars,
              sessionVars>>

\* No run is in the middle of a synchronous stretch: a handler runs from one
\* await to the next without another handler in between, so a command is
\* handled only while every run waits for a scrape, a timer or a reply.
Settled == \A r \in Runs : run[r].pc \notin {"entry", "top"}

\* The run slot the next accepted 'find anomalies' request uses
NextSlot(r) ==
  /\ run[r].pc = "none"
  /\ \A q \in Runs : q < r => run[q].pc # "none"

\* this.isParsingActive = false after the awaited run has returned (line 697)
FlagAfter(r) ==
  isParsingActive' = IF run'[r].pc = "done" THEN FALSE ELSE isParsingActive

\* The onProgress callback of handleFindAnomalies, lines 627-645
OnProgress(stats, current, total, successfulParses, failedParses) ==
  [stats EXCEPT !.totalProcessed = current,
                !.successfulParses = successfulParses,
                !.failedParses = failedParses,
                !.completedCycles =
                   IF current = 1 /\ stats.lastGameIndex = total THEN @ + 1 ELSE @,
                !.lastGameIndex = current]

\* handleFindAnomalies with the test of the flag after the reset of the
\* start time and the statistics
FindAnomaliesResettingFirst ==
  /\ Settled
  /\ IF isParsingActive
       THEN /\ rejected < MaxRejected
            /\ rejected' = rejected + 1
            /\ parsingStartTime' = now
            /\ parsingStats' = FreshStats
            /\ UNCHANGED <<run, isParsingActive>>
       ELSE /\ \E r \in Runs :
                 /\ NextSlot(r)
                 /\ run' = [run EXCEPT ![r] = [NoRun EXCEPT !.pc = "replying"]]
            /\ isParsingActive' = TRUE
            /\ parsingStartTime' = now
            /\ parsingStats' = FreshStats
            /\ UNCHANGED rejected
  /\ UNCHANGED <<catalog, now, stopPending>>
  /\ BotFrame

\* handleFindAnomalies up to its first await after the test, lines 563-609:
\* a request made while isParsingActive is answered "already running"; otherwise
\* the flag is set, the statistics are reset and the start message is sent.
FindAnomalies ==
  /\ Settled
  /\ IF isParsingActive
       THEN /\ rejected < MaxRejected
            /\ rejected' = rejected + 1
            /\ UNCHANGED <<run, isParsingActive, parsingStartTime, parsingStats>>
       ELSE /\ \E r \in Runs :
                 /\ NextSlot(r)
                 /\ run' = [run EXCEPT ![r] = [NoRun EXCEPT !.pc = "replying"]]
            /\ isParsingActive' = TRUE
            /\ parsingStartTime' = now
            /\ parsingStats' = FreshStats
            /\ UNCHANGED rejected
  /\ UNCHANGED <<catalog, now, stopPending>>
  /\ BotFrame

\* await ctx.reply(...) of line 609 is over: it threw and the catch of lines
\* 716-728 clears the flag, or startCircularParsingForDuration is called for
\* 24 hours (lines 621-625).
ReplyDone ==
  /\ Settled
  /\ \E r \in Runs, replyThrows \in BOOLEAN :
       /\ run[r].pc = "replying"
       /\ IF replyThrows
            THEN /\ run' = [run EXCEPT ![r] = [@ EXCEPT !.pc = "failed"]]
                 /\ isParsingActive' = FALSE
            ELSE /\ run' = [run EXCEPT ![r] =
                              [@ EXCEPT !.pc = "entry", !.mode = "duration",
                                        !.durationMs = DAY_MS]]
                 /\ UNCHANGED isParsingActive
  /\ UNCHANGED <<catalog, now, parsingStartTime, parsingStats, stopPending, rejected>>
  /\ BotFrame

BotEnter ==
  /\ \E r \in Runs : Enter(r) /\ FlagAfter(r)
  /\ UNCHANGED <<parsingStartTime, parsingStats, stopPending, rejected>>
  /\ BotFrame

\* The loop top of a run the bot started: shouldStop is
\* () => !this.isParsingActive (line 693), onProgress the callback above.
BotLoopTop ==
  /\ \E r \in Runs :
       /\ LoopTopOf(r, ~isParsingActive, now < BotClock)
       /\ FlagAfter(r)
       /\ parsingStats' =
            IF Len(run'[r].cursorSeq) > Len(run[r].cursorSeq) /\ isParsingActive
              THEN OnProgress(parsingStats, run[r].currentIndex + 1,
                              run[r].totalGames, run[r].successfulParses,
                              run[r].failedParses)
              ELSE parsingStats
  /\ UNCHANGED <<parsingStartTime, stopPending, rejected>>
  /\ BotFrame

BotScrape ==
  /\ Settled
  /\ \E r \in Runs : ScrapeReturns(r)
  /\ UNCHANGED botVars
  /\ BotFrame

BotPause ==
  /\ Settled
  /\ \E r \in Runs : PauseElapses(r)
  /\ UNCHANGED botVars
  /\ BotFrame

BotTick ==
  /\ Tick(now < BotClock)
  /\ UNCHANGED botVars
  /\ BotFrame

\* handleStopParsing, lines 968-1004: with the flag set it clears the flag;
\* otherwise it only answers "not running".
StopParsing ==
  /\ Settled
  /\ IF isParsingActive
       THEN /\ isParsingActive' = FALSE
            /\ stopPending' = [r \in Runs |-> stopPending[r] \/ Active(r)]
       ELSE UNCHANGED <<isParsingActive, stopPending>>
  /\ UNCHANGED <<schedVars, parsingStartTime, parsingStats, rejected>>
  /\ BotFrame

InitBot ==
  /\ InitLedgerAndNotifier
  /\ catalog \in 0..MaxGames
  /\ now = 0
  /\ run = [r \in Runs |-> NoRun]
  /\ InitBotFields
  /\ InitRest

NextBot ==
  \/ FindAnomalies
  \/ ReplyDone
  \/ BotEnter
  \/ BotLoopTop
  \/ BotScrape
  \/ BotPause
  \/ BotTick
  \/ StopParsing

SpecBot == InitBot /\ [][NextBot]_vars

\* -------------------------------------------- the two entry points compared
\* Run 1 is a circularOnlineParsing call, run 2 a startCircularParsingForDuration
\* call with a duration of 24 hours, made after run 1 has returned; both are
\* given the same catalog, and at their k-th loop top and item the same
\* answers: script[k].
TwinRuns == {1, 2}

\* What a loop top and its item can be given: shouldStop() answers true;
\* onProgress throws; the scrape returns a reading, returns null, or throws
TwinInputs == {"stop", "progressThrows"} \cup ItemOutcomes

TwinFrame ==
  UNCHANGED <<ledgerVars, notifierVars, historyVars, botVars, httpVars,
              detectorVars, parseVars, gamesVars,
              sessionVars>>

TwinEnter ==
  /\ \E r \in TwinRuns :
       /\ r = 2 => run[1].pc = "done"
       /\ Enter(r)
  /\ UNCHANGED script
  /\ TwinFrame

\* The k-th loop top of run r: run 1 decides what its k-th loop top is given,
\* run 2 is given the same.
TwinLoopTop ==
  /\ \E r \in TwinRuns, e \in TwinInputs :
       LET k == Len(run[r].cursorSeq) + 1 IN
         /\ IF k <= Len(script)
              THEN e = script[k] /\ UNCHANGED script
              ELSE Len(script) < MaxScript /\ script' = Append(script, e)
         /\ LoopTopOf(r, e = "stop", TRUE)
         /\ e # "stop" => ((run'[r].pc = "pause") <=> (e = "progressThrows"))
  /\ TwinFrame

TwinScrape ==
  /\ \E r \in TwinRuns :
       /\ ScrapeReturns(r)
       /\ run'[r].lastItem = script[Len(run[r].cursorSeq)]
  /\ UNCHANGED script
  /\ TwinFrame

TwinPause ==
  /\ \E r \in TwinRuns : PauseElapses(r)
  /\ UNCHANGED script
  /\ TwinFrame

TwinTick ==
  /\ Tick(FALSE)
  /\ UNCHANGED script
  /\ TwinFrame

InitTwin ==
  /\ InitLedgerAndNotifier
  /\ catalog \in 0..MaxGames
  /\ now = 0
  /\ run = [r \in Runs |->
              IF r = 1 THEN [NoRun EXCEPT !.pc = "entry", !.mode = "circular"]
              ELSE IF r = 2 THEN [NoRun EXCEPT !.pc = "entry", !.mode = "duration",
                                               !.durationMs = DAY_MS]
              ELSE NoRun]
  /\ InitBotFields
  /\ InitRest

NextTwin ==
  \/ TwinEnter
  \/ TwinLoopTop
  \/ TwinScrape
  \/ TwinPause
  \/ TwinTick

SpecTwin == InitTwin /\ [][NextTwin]_vars

\* ---------------------------------------------------------- one get call
InitHttp ==
  /\ InitLedgerAndNotifier
  /\ catalog = 0
  /\ now = 0
  /\ run = [r \in Runs |-> NoRun]
  /\ InitBotFields
  /\ script = <<>>
  /\ detector = NoDetector
  /\ parse = NoParse
  /\ games = NoGames
  /\ InitSession
  /\ \E n \in 0..MaxRetryAttempts, b \in BackoffChoices :
       http = [NoRequest EXCEPT !.RETRY_ATTEMPTS = n, !.RETRY_BACKOFF_MS = b]

HttpGetStep == HttpGet /\ HttpFrame
HttpRespondsStep == HttpResponds /\ HttpFrame
HttpSleepStep == HttpSleepElapses /\ HttpFrame

NextHttp ==
  \/ HttpGetStep
  \/ HttpRespondsStep
  \/ HttpSleepStep

SpecHttp == InitHttp /\ [][NextHttp]_vars

InitNotifier ==
  /\ InitLedgerAndNotifier
  /\ InitNoRuns

NotifierFrame ==
  UNCHANGED <<schedVars, botVars, twinVars, httpVars, detectorVars, parseVars,
              gamesVars,
              sessionVars>>

NextNotifier ==
  \/ SaveAnomaly /\ NotifierFrame
  \/ Invoke /\ NotifierFrame
  \/ LoopTop /\ NotifierFrame
  \/ ChannelAnswers /\ NotifierFrame
  \/ SendReturns /\ NotifierFrame
  \/ DelayElapses /\ NotifierFrame
  \/ Restart /\ NotifierFrame

SpecNotifier == InitNotifier /\ [][NextNotifier]_vars

\* ------------------------------------- the notifier over a ledger as found
\* The process starts with a ledger earlier runs have filled: rows of any
\* timestamps, delivered ones marked.
InitBatch ==
  /\ \E n \in 0..MaxAnomalies :
       anomalies \in [1..n -> [timestamp : 1..MaxBatchTs, notified : {0, 1}]]
  /\ accepted = [a \in Ids(anomalies) |-> anomalies[a].notified]
  /\ lastOutcome = [a \in Ids(anomalies) |->
                      IF anomalies[a].notified = 1 THEN "ok" ELSE "none"]
  /\ failThenOk = [a \in Ids(anomalies) |-> FALSE]
  /\ sentCredit = [a \in Ids(anomalies) |-> anomalies[a].notified]
  /\ flips = [a \in Ids(anomalies) |-> anomalies[a].notified]
  /\ nPc = "idle"
  /\ unnotifiedAnomalies = <<>>
  /\ idx = 1
  /\ sent = 0
  /\ errors = 0
  /\ resp = FALSE
  /\ calls = 0
  /\ crashes = 0
  /\ newSinceRead = FALSE
  /\ prevReturned = FALSE
  /\ thisCall = NoCall
  /\ InitNoRuns

InvokeStep == Invoke /\ NotifierFrame
LoopTopOfBatchStep == LoopTop /\ NotifierFrame
ChannelAnswersStep == ChannelAnswers /\ NotifierFrame
SendReturnsStep == SendReturns /\ NotifierFrame
DelayElapsesStep == DelayElapses /\ NotifierFrame

NextBatch ==
  \/ InvokeStep
  \/ LoopTopOfBatchStep
  \/ ChannelAnswersStep
  \/ SendReturnsStep
  \/ DelayElapsesStep

SpecBatch == InitBatch /\ [][NextBatch]_vars


\* ------------------------------------------- the detector over one window
\* Every window of up to MaxWindow samples
Windows == UNION {[1..k -> WindowCcus] : k \in 0..MaxWindow}

InitDetector ==
  /\ InitLedgerAndNotifier
  /\ catalog = 0
  /\ now = 0
  /\ run = [r \in Runs |-> NoRun]
  /\ InitBotFields
  /\ script = <<>>
  /\ http = NoRequest
  /\ parse = NoParse
  /\ games = NoGames
  /\ InitSession
  /\ \E nSigma \in NSigmaChoices, minPoints \in MinPointsChoices,
        window \in Windows :
       detector = [NoDetector EXCEPT !.ANOMALY_N_SIGMA = nSigma,
                                     !.MIN_POINTS_IN_WINDOW = minPoints,
                                     !.window = window]

UpdateAnomalySettingsStep ==
  /\ UpdateAnomalySettings
  /\ DetectorFrame
  /\ UNCHANGED <<ledgerVars, notifierVars, historyVars>>
AnalyzeGameStep ==
  /\ AnalyzeGame
  /\ DetectorFrame
  /\ UNCHANGED <<ledgerVars, notifierVars, historyVars>>
AnalyzeAllStep == AnalyzeAllGamesForAnomalies /\ DetectorFrame

NextDetector ==
  \/ UpdateAnomalySettingsStep
  \/ AnalyzeGameStep
  \/ AnalyzeAllStep

SpecDetector == InitDetector /\ [][NextDetector]_vars

\* One pass over a game whose latest timestamp is shared by up to MaxTies
\* snapshots; the ledger is empty before the pass
SweepNSigmaChoices == {5, 30}
SweepCcus == {80, 110}
SweepWindows == UNION {[1..k -> SweepCcus] : k \in 1..MaxWindow}

InitSweep ==
  /\ InitLedgerAndNotifier
  /\ catalog = 0
  /\ now = 0
  /\ run = [r \in Runs |-> NoRun]
  /\ InitBotFields
  /\ script = <<>>
  /\ http = NoRequest
  /\ parse = NoParse
  /\ games = NoGames
  /\ InitSession
  /\ \E nSigma \in SweepNSigmaChoices, minPoints \in MinPointsChoices,
        window \in SweepWindows, ties \in 1..MaxTies :
       /\ ties <= Len(window)
       /\ detector = [NoDetector EXCEPT !.ANOMALY_N_SIGMA = nSigma,
                                        !.MIN_POINTS_IN_WINDOW = minPoints,
                                        !.window = window,
                                        !.ties = ties]

NextSweep == AnalyzeAllStep

SpecSweep == InitSweep /\ [][NextSweep]_vars

\* ---------------------------------------------------------- one scrape call
InitParse ==
  /\ InitLedgerAndNotifier
  /\ catalog = 0
  /\ now = 0
  /\ run = [r \in Runs |-> NoRun]
  /\ InitBotFields
  /\ script = <<>>
  /\ http = NoRequest
  /\ detector = NoDetector
  /\ games = NoGames
  /\ InitSession
  /\ \E maxRetries \in 0..MaxParseRetries :
       parse = [NoParse EXCEPT !.maxRetries = maxRetries]

ParseOnlineStep == ParseOnlineFromRoblox /\ ParseFrame
ParseAttemptStep == ParseAttemptEnds /\ ParseFrame
ParseWaitStep == ParseWaitElapses /\ ParseFrame

NextParse ==
  \/ ParseOnlineStep
  \/ ParseAttemptStep
  \/ ParseWaitStep

SpecParse == InitParse /\ [][NextParse]_vars

\* ------------------------------------------------------- upserts of games
InitGames ==
  /\ InitLedgerAndNotifier
  /\ catalog = 0
  /\ now = 0
  /\ run = [r \in Runs |-> NoRun]
  /\ InitBotFields
  /\ script = <<>>
  /\ http = NoRequest
  /\ detector = NoDetector
  /\ parse = NoParse
  /\ games = NoGames
  /\ InitSession

UpsertGameStep == UpsertGameCall /\ GamesFrame
UpsertGameWithStatusStep == UpsertGameWithStatusCall /\ GamesFrame

NextGames ==
  \/ UpsertGameStep
  \/ UpsertGameWithStatusStep

SpecGames == InitGames /\ [][NextGames]_vars

\* ------------------------------------ the bot's commands late in the day
\* The bot as SpecBot has it, met when the explored span of the clock has one
\* tick left: the commands and the steps of the runs interleave as before, the
\* runs are short and the catalog is empty or of one game.
InitBotLate ==
  /\ InitLedgerAndNotifier
  /\ catalog \in {0, 1}
  /\ now = BotClock - TickMs
  /\ run = [r \in Runs |-> NoRun]
  /\ InitBotFields
  /\ InitRest

SpecBotLate == InitBotLate /\ [][NextBot]_vars

\* ------------------------------- one run while the catalog store changes
CatalogClock == MaxCatalogClockTicks * TickMs

\* The run is explored for CatalogClock milliseconds from its start
WithinCatalogHorizon(r) == Active(r) /\ now - run[r].startTime < CatalogClock

\* upsertGame inserts rows, the duplicate cleanup deletes rows: table games
\* has another number of rows
CatalogChanges ==
  /\ \E rows \in 0..MaxGames :
       /\ rows # catalog
       /\ catalog' = rows
  /\ UNCHANGED <<now, run>>

CatalogChangeStep == CatalogChanges /\ SchedulerFrame
CatalogLoopTopStep ==
  /\ \E stop \in BOOLEAN : LoopTopOf(1, stop, WithinCatalogHorizon(1))
  /\ SchedulerFrame
CatalogTickStep == Tick(WithinCatalogHorizon(1)) /\ SchedulerFrame

NextCatalog ==
  \/ EnterStep
  \/ CatalogLoopTopStep
  \/ ScrapeStep
  \/ PauseStep
  \/ CatalogTickStep
  \/ CatalogChangeStep

SpecCatalog == InitScheduler /\ [][NextCatalog]_vars

\* A scheduler run followed reading by reading
ResolveStep == ScrapeResolves(1) /\ SchedulerFrame

NextReadings ==
  \/ EnterStep
  \/ CatalogLoopTopStep
  \/ ResolveStep
  \/ PauseStep
  \/ CatalogTickStep

SpecReadings == InitScheduler /\ [][NextReadings]_vars

\* --------------------------------------------------- the runs of index.ts
InitMain ==
  /\ InitLedgerAndNotifier
  /\ catalog = 0
  /\ now = 0
  /\ run = [r \in Runs |-> NoRun]
  /\ InitBotFields
  /\ script = <<>>
  /\ http = NoRequest
  /\ parse = NoParse
  /\ games = NoGames
  /\ InitSession
  /\ \E nSigma \in NSigmaChoices, minPoints \in MinPointsChoices :
       detector = [NoDetector EXCEPT !.ANOMALY_N_SIGMA = nSigma,
                                     !.MIN_POINTS_IN_WINDOW = minPoints]

MainFrame ==
  UNCHANGED <<schedVars, botVars, twinVars, httpVars, parseVars, gamesVars,
              overlap, input, gameParsing>>

MainStartsStep == MainStarts /\ MainFrame
PopulateSettlesStep == PopulateSettles /\ MainFrame
MainAnalysesStep == MainAnalyses /\ MainFrame
MainDecidesStep == MainDecides /\ MainFrame
MainReturnsStep == MainReturns /\ MainFrame

NextMain ==
  \/ MainStartsStep
  \/ PopulateSettlesStep
  \/ MainAnalysesStep
  \/ MainDecidesStep
  \/ MainReturnsStep
  \/ LoopTop /\ NotifierFrame
  \/ ChannelAnswers /\ NotifierFrame
  \/ SendReturns /\ NotifierFrame
  \/ DelayElapses /\ NotifierFrame

SpecMain == InitMain /\ [][NextMain]_vars

\* ------------------------------------- two invocations of the notifier
OverlapFrame ==
  UNCHANGED <<schedVars, botVars, twinVars, httpVars, detectorVars, parseVars,
              gamesVars, main, input, gameParsing>>

\* The one invocation of this process
FirstInvoke == calls = 0 /\ Invoke

NextOverlap ==
  \/ SaveAnomaly /\ NotifierFrame
  \/ FirstInvoke /\ NotifierFrame
  \/ LoopTop /\ NotifierFrame
  \/ FirstChannelAnswers /\ OverlapFrame
  \/ SendReturns /\ NotifierFrame
  \/ DelayElapses /\ NotifierFrame
  \/ SecondInvoke /\ OverlapFrame
  \/ SecondLoopTop /\ OverlapFrame
  \/ SecondChannelAnswers /\ OverlapFrame
  \/ SecondSendReturns /\ OverlapFrame
  \/ SecondDelayElapses /\ OverlapFrame

SpecOverlap == InitNotifier /\ [][NextOverlap]_vars

\* ------------------------------------------------- the settings dialogue
SettingsFrame ==
  UNCHANGED <<ledgerVars, notifierVars, historyVars, schedVars, botVars, twinVars,
              httpVars, parseVars, gamesVars, main, overlap, gameParsing>>

HandleSettingsNSigmaStep == HandleSettingsNSigma /\ SettingsFrame
HandleSettingsMinDeltaStep == HandleSettingsMinDelta /\ SettingsFrame
HandleSettingsCustomMessageStep == HandleSettingsCustomMessage /\ SettingsFrame
OnTextStep == OnText /\ SettingsFrame

NextSettings ==
  \/ HandleSettingsNSigmaStep
  \/ HandleSettingsMinDeltaStep
  \/ HandleSettingsCustomMessageStep
  \/ OnTextStep

SpecSettings == InitNotifier /\ [][NextSettings]_vars

\* ------------------------------------------- 'parse games' and its cancel
GameParsingFrame ==
  UNCHANGED <<ledgerVars, notifierVars, historyVars, schedVars, botVars, twinVars,
              httpVars, detectorVars, parseVars, gamesVars, main, overlap, input>>

HandleParseGamesStep ==
  /\ \E h \in ParseCommands, viaCallback \in BOOLEAN :
       HandleParseGames(h, viaCallback)
  /\ GameParsingFrame
CallbackAnsweredStep ==
  /\ \E h \in ParseCommands : CallbackAnswered(h)
  /\ GameParsingFrame
AnnouncedStep ==
  /\ \E h \in ParseCommands : Announced(h)
  /\ GameParsingFrame
ParseNewGamesSettlesStep ==
  /\ \E h \in ParseCommands : ParseNewGamesSettles(h)
  /\ GameParsingFrame
HandleCancelGameParsingStep == HandleCancelGameParsing /\ GameParsingFrame

NextGameParsing ==
  \/ HandleParseGamesStep
  \/ CallbackAnsweredStep
  \/ AnnouncedStep
  \/ ParseNewGamesSettlesStep
  \/ HandleCancelGameParsingStep

SpecGameParsing == InitNotifier /\ [][NextGameParsing]_vars

\* ------------------------------------------------------------------ claims
\* A step in which an invocation returns { sent, errors } (no restart)
Returns ==
  /\ nPc' = "idle"
  /\ crashes' = crashes
  /\ (nPc = "loop" \/ calls' = calls + 1)

\* A step in which an invocation reads its batch
Reads == calls' = calls + 1 /\ errors' = 0

\* C1: an anomaly whose notified flag is 1 keeps notified = 1 in every later
\* state, whatever insertAnomaly, markAnomalyNotified and
\* sendAnomalyNotifications do: the flag is a one-way latch.
C1_LatchNeverReverts ==
  [][\A a \in Ids(anomalies) :
       anomalies[a].notified = 1 =>
         a \in Ids(anomalies') /\ anomalies'[a].notified = 1]_vars

C1_Witness ==
  \E a \in Ids(anomalies) :
    /\ flips[a] = 1
    /\ anomalies[a].notified = 1
    /\ calls >= 2
    /\ nPc = "answered"

\* C2: the notifier sets the notified flag of an anomaly only in the step that
\* handles a successful send of that same anomaly; a send that returned failure
\* leaves the flag 0, and an anomaly whose latest attempt failed (failed send,
\* or an exception before the send) is in the batch the next invocation reads.
C2_MarkOnlyAfterSuccess ==
  [][/\ \A a \in Ids(anomalies) :
          (anomalies[a].notified = 0 /\ anomalies'[a].notified = 1) =>
            nPc = "answered" /\ resp /\ unnotifiedAnomalies[idx] = a
     /\ (nPc = "answered" /\ ~resp) =>
          anomalies'[unnotifiedAnomalies[idx]].notified = 0
     /\ Reads =>
          \A a \in Ids(anomalies) :
            lastOutcome[a] \in {"fail", "fmterr"} =>
              anomalies[a].notified = 0 /\ a \in Range(unnotifiedAnomalies')]_vars

C2_Witness ==
  \E a \in Ids(anomalies) :
    /\ lastOutcome[a] = "fail"
    /\ calls >= 2
    /\ nPc = "sending"
    /\ unnotifiedAnomalies[idx] = a

\* C3 as stated: the channel accepts at most one message per anomaly, restarts
\* and throwing mark writes included.
C3_AcceptedAtMostOnce ==
  \A a \in Ids(anomalies) : accepted[a] <= 1

\* C3 amended: once the notified flag of an anomaly is 1, the channel accepts
\* no further message for it.
C3_NoSendAfterLatch ==
  [][\A a \in Ids(anomalies) :
       anomalies[a].notified = 1 => accepted'[a] = accepted[a]]_vars

C3_Witness ==
  \E a, b \in Ids(anomalies) :
    /\ a # b
    /\ anomalies[a].notified = 1
    /\ accepted[a] >= 1
    /\ calls >= 2
    /\ nPc = "answered"
    /\ resp
    /\ unnotifiedAnomalies[idx] = b

\* C4: when the delivery of an anomaly fails in one invocation and succeeds in
\* the next, sent++ has run exactly once for it over the two invocations and its
\* notified flag has gone from 0 to 1 exactly once.
C4_FailThenSucceedCountsOnce ==
  \A a \in Ids(anomalies) :
    failThenOk[a] =>
      sentCredit[a] = 1 /\ flips[a] = 1 /\ anomalies[a].notified = 1

C4_Witness ==
  \E a \in Ids(anomalies) :
    /\ failThenOk[a]
    /\ nPc = "idle"
    /\ prevReturned
    /\ sent >= 1

\* C5 as stated: an invocation that follows a returned invocation with no
\* anomaly recorded in between attempts no send and returns sent = 0.
C5_SecondCallSendsNothing ==
  [][(Returns /\ thisCall'.repeat) =>
       thisCall'.tried = 0 /\ sent' = 0]_vars

\* C5 amended: ... when the earlier invocation returned errors = 0.
C5_SecondCallAfterCleanFirst ==
  [][(Returns /\ thisCall'.repeat /\ thisCall'.prevErrors = 0) =>
       thisCall'.tried = 0 /\ sent' = 0]_vars

C5_Witness ==
  /\ nPc = "idle"
  /\ prevReturned
  /\ calls = 2
  /\ thisCall.repeat
  /\ thisCall.prevErrors = 0
  /\ errors = 0
  /\ \E a \in Ids(anomalies) : flips[a] = 1

\* C6: at most one startCircularParsingForDuration loop is between its call and
\* its return at any time, whatever the order of 'find anomalies' and 'stop
\* parsing' commands.
C6_AtMostOneActiveRun ==
  Cardinality({r \in Runs : Active(r)}) <= 1

\* C7: a run that was active when a stop request was accepted returns at its
\* next loop top, starting no further item, whatever commands arrive afterwards.
C7_StopObservedAtNextLoopTop ==
  [][\A r \in Runs :
       (stopPending[r] /\ run[r].pc = "top" /\ run'[r].pc # "top") =>
         run'[r].pc = "done"]_vars

\* C8: when shouldStop() returns true at the loop top after m items, the run
\* begins no further item (no onProgress call, no scrape, no snapshot write) and
\* the summary it returns has successfulParses + failedParses = m.
C8_StopHaltsBeforeNextItem ==
  /\ [](\A r \in Runs :
          run[r].exit = "stopped" =>
            /\ run[r].pc = "done"
            /\ Processed(run[r]) = run[r].stopSeenAt
            /\ run[r].progressCalls = run[r].stopSeenAt
            /\ run[r].scrapes <= run[r].stopSeenAt
            /\ run[r].snapshots = run[r].successfulParses)
  /\ [][\A r \in Runs :
          run[r].stopSeenAt >= 0 =>
            /\ run'[r].cursorSeq = run[r].cursorSeq
            /\ run'[r].progressCalls = run[r].progressCalls
            /\ run'[r].scrapes = run[r].scrapes
            /\ run'[r].snapshots = run[r].snapshots]_vars

C8_Witness ==
  /\ run[1].exit = "stopped"
  /\ run[1].stopSeenAt = 2
  /\ run[1].totalGames = 3
  /\ run[1].successfulParses = 1
  /\ run[1].failedParses = 1

\* C9: in both entry points the k-th item a run begins (k = 0, 1, 2, ...) is the
\* game at snapshot index k mod totalGames, whether the items before it
\* succeeded or failed.
C9_CursorIsRoundRobin ==
  \A r \in Runs :
    \A k \in 1..Len(run[r].cursorSeq) :
      run[r].cursorSeq[k] = (k - 1) % run[r].totalGames

C9_Witness ==
  /\ run[1].totalGames = 3
  /\ run[1].cursorSeq = <<0, 1, 2, 0, 1, 2, 0>>
  /\ run[1].failedParses >= 2
  /\ run[1].successfulParses >= 2

\* C10: startCircularParsingForDuration begins an item only at a loop top where
\* Date.now() - startTime < durationMs, and when scrapes return, timers fire and
\* the clock advances it returns, also if shouldStop never returns true.
C10_DurationBoundsTheRun ==
  /\ [][\A r \in Runs :
          (run[r].mode = "duration"
             /\ Len(run'[r].cursorSeq) > Len(run[r].cursorSeq)) =>
            now - run[r].startTime < run[r].durationMs]_vars
  /\ <>(run[1].mode = "circular" \/ run[1].pc = "done")

C10_Witness ==
  /\ run[1].mode = "duration"
  /\ run[1].pc = "done"
  /\ run[1].exit = "elapsed"
  /\ Len(run[1].cursorSeq) >= 2
  /\ run[1].stopSeenAt = -1

\* C11: every processed item adds one to exactly one of successfulParses and
\* failedParses; a null reading or an exception adds one to failedParses and
\* one entry to errors, and the run goes on to its pause and the next item.
C11_ItemCountedOnce ==
  /\ [](\A r \in Runs :
          Len(run[r].cursorSeq) =
            Processed(run[r]) + (IF run[r].pc = "item" THEN 1 ELSE 0))
  /\ [][\A r \in Runs :
          Processed(run'[r]) # Processed(run[r]) =>
            /\ run'[r].pc = "pause"
            /\ run'[r].lastItem \in ItemOutcomes
            /\ run'[r].currentIndex =
                 NextIndex(run[r].currentIndex, run[r].totalGames)
            /\ IF run'[r].lastItem = "saved"
                 THEN /\ run'[r].successfulParses = run[r].successfulParses + 1
                      /\ run'[r].failedParses = run[r].failedParses
                      /\ run'[r].errors = run[r].errors
                 ELSE /\ run'[r].successfulParses = run[r].successfulParses
                      /\ run'[r].failedParses = run[r].failedParses + 1
                      /\ run'[r].errors = run[r].errors + 1]_vars

C11_Witness ==
  /\ run[1].pc = "pause"
  /\ run[1].lastItem = "null"
  /\ run[1].failedParses = 2
  /\ run[1].errors = 2
  /\ run[1].successfulParses = 1
  /\ run[1].scrapes = 2

\* C12: every reading a run samples successfully is passed to
\* analyzeGameForAnomalies during the run.
C12_SampledReadingIsClassified ==
  \A r \in Runs : run[r].classified = run[r].snapshots

\* C13 (as stated): onProgress is called after its item was scraped and
\* counted, so the counters it is given include the item's outcome.
C13_ProgressReportsOwnItem ==
  \A r \in Runs :
    run[r].progressCalls > 0 =>
      run[r].reported.successfulParses + run[r].reported.failedParses =
        run[r].progressCalls

\* C13 (amended): onProgress is called once per item, when the item begins and
\* before its scrape, with the counters of the items before it.
C13_ProgressPrecedesItem ==
  /\ [](\A r \in Runs :
          /\ run[r].progressCalls = Len(run[r].cursorSeq)
          /\ run[r].progressCalls > 0 =>
               run[r].reported.successfulParses + run[r].reported.failedParses =
                 run[r].progressCalls - 1)
  /\ [][\A r \in Runs :
          /\ run'[r].progressCalls > run[r].progressCalls =>
               /\ run'[r].progressCalls = run[r].progressCalls + 1
               /\ run'[r].scrapes = run[r].scrapes
               /\ run'[r].reported.successfulParses = run[r].successfulParses
               /\ run'[r].reported.failedParses = run[r].failedParses
          /\ run'[r].scrapes > run[r].scrapes =>
               /\ run'[r].progressCalls = run[r].progressCalls
               /\ run[r].progressCalls = Processed(run[r]) + 1]_vars

C13_Witness ==
  /\ run[1].pc = "pause"
  /\ run[1].progressCalls = 3
  /\ run[1].scrapes = 3
  /\ run[1].reported = [successfulParses |-> 1, failedParses |-> 1]
  /\ run[1].successfulParses = 2

\* C14: with an empty catalog both entry points return at once, with
\* totalGames = successfulParses = failedParses = 0 and one entry in errors,
\* having called neither shouldStop nor onProgress nor the scraper and having
\* slept for no pause.
C14_EmptyCatalogReturnsAtOnce ==
  /\ [](\A r \in Runs :
          run[r].exit = "empty" =>
            /\ run[r].pc = "done"
            /\ run[r].totalGames = 0
            /\ run[r].successfulParses = 0
            /\ run[r].failedParses = 0
            /\ run[r].errors = 1
            /\ run[r].stopAsks = 0
            /\ run[r].progressCalls = 0
            /\ run[r].scrapes = 0
            /\ run[r].snapshots = 0
            /\ run[r].pauses = 0)
  /\ [][\A r \in Runs :
          (run[r].pc = "entry" /\ run'[r].pc # "entry" /\ catalog = 0) =>
            run'[r].exit = "empty"]_vars

C14_Witness ==
  /\ catalog = 0
  /\ run[1].mode = "circular"
  /\ run[1].exit = "empty"
  /\ run[1].pc = "done"

\* C15: both entry points sleep the same 2000 ms after every processed item.
C15_PauseIsTwoSeconds ==
  \A r \in Runs : run[r].pauses > 0 => run[r].lastPauseMs = DURATION_PAUSE_MS

C20_GivesUpWithLastError ==
  /\ http.requests <= 1 + http.RETRY_ATTEMPTS
  /\ http.pc = "thrown" =>
       /\ http.requests = 1 + http.RETRY_ATTEMPTS
       /\ Len(http.failures) = http.requests
       /\ http.thrown = http.failures[Len(http.failures)]
       /\ Len(http.sleeps) = http.requests - 1
  /\ http.pc \in {"returned", "thrown"} <=> (http.returned > 0 \/ http.thrown > 0)

C20_Witness ==
  /\ http.pc = "thrown"
  /\ http.RETRY_ATTEMPTS = 2
  /\ http.failures = <<1, 1, 2>>
  /\ http.thrown = 2

\* C17: within one sendAnomalyNotifications call the anomalies are attempted in
\* the order of the batch, one after the other, and the batch is in
\* non-decreasing order of timestamp: the oldest undelivered anomaly comes first.
C17_OldestFirst ==
  /\ [](\A i, j \in 1..Len(unnotifiedAnomalies) :
          i < j => anomalies[unnotifiedAnomalies[i]].timestamp <=
                     anomalies[unnotifiedAnomalies[j]].timestamp)
  /\ [][/\ idx' # idx => (idx' = idx + 1 \/ idx' = 1)
        /\ (nPc = "loop" /\ nPc' = "sending") =>
             \A j \in 1..(idx - 1) :
               lastOutcome[unnotifiedAnomalies[j]] # "none"]_vars

C17_Witness ==
  /\ nPc = "sending"
  /\ idx = 2
  /\ unnotifiedAnomalies = <<2, 1>>
  /\ anomalies[2].timestamp < anomalies[1].timestamp

\* The positions of the batch whose latest attempt was delivered and marked
DeliveredInBatch ==
  {i \in 1..Len(unnotifiedAnomalies) : lastOutcome[unnotifiedAnomalies[i]] = "ok"}

\* C18: a call over a batch of n anomalies makes one attempt for each of them,
\* whatever the earlier attempts gave: when it returns, sent + errors = n, sent
\* counts the delivered ones and errors the failed ones.
C18_FailureDoesNotAbortBatch ==
  /\ [](/\ nPc \in {"loop", "sending", "answered"} => sent + errors = idx - 1
        /\ nPc = "delay" => sent + errors = idx
        /\ idx <= Len(unnotifiedAnomalies) + 1)
  /\ [][(nPc = "loop" /\ nPc' = "idle" /\ crashes' = crashes) =>
          /\ idx = Len(unnotifiedAnomalies) + 1
          /\ sent' + errors' = Len(unnotifiedAnomalies)
          /\ sent' = Cardinality(DeliveredInBatch)
          /\ errors' = Len(unnotifiedAnomalies) - Cardinality(DeliveredInBatch)]_vars

C18_Witness ==
  /\ nPc = "loop"
  /\ Len(unnotifiedAnomalies) = 2
  /\ idx = 3
  /\ lastOutcome[unnotifiedAnomalies[1]] = "fail"
  /\ lastOutcome[unnotifiedAnomalies[2]] = "ok"
  /\ sent = 1
  /\ errors = 1

\* C19: between two consecutive delivery attempts of a batch the 1000 ms delay
\* is slept, whatever the earlier attempt gave.
C19_DelayBetweenAttempts ==
  [][(nPc' # "idle" /\ idx' = idx + 1 /\ idx' <= Len(unnotifiedAnomalies)) =>
       nPc = "delay"]_vars

\* C21: when the first k requests of get fail and request k+1 succeeds
\* (0 <= k <= RETRY_ATTEMPTS), get returns the response of that request after
\* exactly k backoff sleeps; every request but the first is preceded by one
\* sleep, the first by none.
C21_ReturnsAfterOneSleepPerRetry ==
  /\ http.pc \in {"request", "sleep"} => Len(http.sleeps) = http.requests
  /\ http.pc = "returned" =>
       /\ http.returned = http.requests
       /\ Len(http.failures) = http.requests - 1
       /\ Len(http.failures) <= http.RETRY_ATTEMPTS
       /\ Len(http.sleeps) = Len(http.failures)

C21_Witness ==
  /\ http.pc = "returned"
  /\ Len(http.failures) = 2
  /\ Len(http.sleeps) = 2

\* C22: the sleep before the n-th retry lies within
\* [0.8, 1.2] x RETRY_BACKOFF_MS x 2^(n-1).
C22_BackoffWithinJitter ==
  \A n \in 1..Len(http.sleeps) :
    LET baseMs == http.RETRY_BACKOFF_MS * Pow2(n - 1)
    IN /\ 10 * http.sleeps[n] >= 8 * baseMs
       /\ 10 * http.sleeps[n] <= 12 * baseMs

C22_Witness ==
  /\ Len(http.sleeps) = 2
  /\ http.sleeps[1] < http.RETRY_BACKOFF_MS
  /\ http.sleeps[2] > 2 * http.RETRY_BACKOFF_MS

\* values.reduce((sum, val) => sum + val * val, 0)
RECURSIVE SumOfSquares(_)
SumOfSquares(values) ==
  IF values = <<>>
    THEN 0
    ELSE Head(values) * Head(values) + SumOfSquares(Tail(values))

\* n^2 (n - 1) times the sample variance of values: 0 iff the stddev is 0
ScaledVariance(values) ==
  Len(values) * (Len(values) * SumOfSquares(values) - SumOf(values) * SumOf(values))

\* |currentCcu - mean| > nSigma x stddev and |currentCcu - mean| >= minDelta,
\* with nSigma in tenths, for the mean and the sample stddev of values
BothTestsPass(values, currentCcu, nSigma, minDelta) ==
  LET n == Len(values)
      nDelta == n * currentCcu - SumOf(values)
  IN /\ 100 * nDelta * nDelta * (n - 1) > nSigma * nSigma * ScaledVariance(values)
     /\ Abs(nDelta) >= minDelta * n

\* The window was read, has enough samples and a non-zero stddev
Classifiable ==
  /\ detector.call.made
  /\ ~detector.call.readFailed
  /\ Len(detector.window) >= detector.MIN_POINTS_IN_WINDOW
  /\ Len(detector.window) >= 2
  /\ ScaledVariance(detector.window) # 0

\* C23: for a window with at least MIN_POINTS_IN_WINDOW samples and non-zero
\* stddev, analyzeGameForAnomalies returns an anomaly iff
\* |currentCcu - mean| > nSigma x stddev and |currentCcu - mean| >= minDelta
\* for the thresholds it uses; with mean 100, stddev 10, nSigma 3, minDelta 10
\* a reading of 135 is an anomaly (direction up) and a reading of 129 is none.
C23_AnomalyIffBothTestsPass ==
  /\ Classifiable =>
       (detector.call.result.kind = "anomaly"
          <=> BothTestsPass(detector.window, detector.call.currentCcu,
                            detector.ANOMALY_N_SIGMA, MIN_DELTA_THRESHOLD))
  /\ ( /\ Classifiable
       /\ detector.window = <<90, 100, 110>>
       /\ detector.ANOMALY_N_SIGMA = 30 ) =>
       /\ detector.call.currentCcu = 135 =>
            /\ detector.call.result.kind = "anomaly"
            /\ detector.call.result.direction = "up"
       /\ detector.call.currentCcu = 129 => detector.call.result = Null

C23_Witness ==
  /\ Classifiable
  /\ detector.window = <<90, 100, 110>>
  /\ detector.ANOMALY_N_SIGMA = 30
  /\ detector.call.currentCcu = 135
  /\ detector.call.result.kind = "anomaly"

\* C24: analyzeGameForAnomalies returns null, whatever currentCcu and the
\* thresholds, when the window has fewer than MIN_POINTS_IN_WINDOW samples or
\* all its samples have the same ccu.
C24_NullOnShortOrFlatWindow ==
  ( /\ detector.call.made
    /\ \/ Len(detector.window) < detector.MIN_POINTS_IN_WINDOW
       \/ \A i, j \in 1..Len(detector.window) :
            detector.window[i] = detector.window[j] )
    => detector.call.result = Null

C24_Witness ==
  /\ detector.call.made
  /\ ~detector.call.readFailed
  /\ detector.window = <<90, 110>>
  /\ detector.MIN_POINTS_IN_WINDOW = 3
  /\ detector.ANOMALY_N_SIGMA = 10
  /\ detector.call.currentCcu = 135
  /\ detector.call.result = Null

\* C25: once updateAnomalySettings(n, m) has committed, every later
\* analyzeGameForAnomalies classifies with nSigma = n and minDeltaThreshold = m,
\* the values of the settings row at the time of the call.
C25_ClassifiesWithStoredSettings ==
  [][(detector.updated /\ detector'.call # detector.call /\ Classifiable') =>
       (detector'.call.result.kind = "anomaly"
          <=> BothTestsPass(detector.window, detector'.call.currentCcu,
                            detector.settings.n_sigma,
                            detector.settings.min_delta_threshold))]_vars

\* C26: a failed read of the window makes analyzeGameForAnomalies report
\* something other than 'no anomaly', and analyzeAllGamesForAnomalies counts
\* the game in errors.
C26_ReadFailureIsReported ==
  /\ (detector.call.made /\ detector.call.readFailed)
       => detector.call.result # Null
  /\ detector.pass.made => detector.pass.errors >= detector.pass.readFailures

\* C27: the wait before the n-th retry of parseOnlineFromRoblox is
\* base x 2^(n-1), base being the wait before the first retry, for every
\* maxRetries; after the last failed attempt the function returns null.
C27_RetryWaitsDouble ==
  /\ \A n \in 1..Len(parse.waits) : parse.waits[n] = RetryWait(1) * Pow2(n - 1)
  /\ (parse.pc = "returned" /\ parse.failures = parse.maxRetries)
       => parse.result = "null"

WalksItsSnapshot(r) ==
  /\ run[r].catalogReads = 1
  /\ \A k \in 1..Len(run[r].cursorSeq) :
       run[r].cursorSeq[k] = (k - 1) % run[r].totalGames

\* C28: the scheduler reads the catalog exactly once, at start; games added
\* to or removed from the store during the run change neither totalGames nor
\* the sequence of games the run processes.
C28_CatalogReadOnceAtStart ==
  /\ [](\A r \in Runs : run[r].pc \notin {"none", "entry"} => WalksItsSnapshot(r))
  /\ [][\A r \in Runs :
          run[r].pc \notin {"none", "entry"} =>
            /\ run'[r].totalGames = run[r].totalGames
            /\ run'[r].catalogReads = run[r].catalogReads]_vars

C28_Witness ==
  /\ run[1].totalGames = 2
  /\ catalog = 3
  /\ run[1].cursorSeq = <<0, 1, 0>>
  /\ run[1].successfulParses = 2

\* C29: a 'find anomalies' request made while isParsingActive is true is
\* rejected: it starts no scheduler loop and leaves isParsingActive,
\* parsingStartTime and parsingStats as they are.
C29_RequestWhileActiveIsRejected ==
  [][/\ rejected' # rejected =>
          /\ isParsingActive
          /\ UNCHANGED <<run, isParsingActive, parsingStartTime, parsingStats>>
     /\ isParsingActive =>
          /\ \A r \in Runs : run[r].pc = "none" => run'[r].pc = "none"
          /\ parsingStartTime' = parsingStartTime]_vars

C29_Witness ==
  /\ rejected = 1
  /\ isParsingActive
  /\ parsingStats.totalProcessed >= 1
  /\ \E r \in Runs : run[r].pc = "pause"

\* C35: at every point of a scheduler run the snapshots written are as many as
\* successfulParses, and an item whose scrape resolved to a number, 0 included,
\* writes one snapshot and counts one success and no failure.
C35_SnapshotPerSuccess ==
  /\ [](run[1].snapshots = run[1].successfulParses)
  /\ [][(/\ run[1].pc = "item"
         /\ run'[1].pc = "pause"
         /\ run'[1].lastItem # "throws"
         /\ run'[1].lastReading # NoOnlineCount)
        => (/\ run'[1].snapshots = run[1].snapshots + 1
            /\ run'[1].successfulParses = run[1].successfulParses + 1
            /\ run'[1].failedParses = run[1].failedParses)]_vars

\* A reading of 0 players has just been written, after an earlier success
C35_Witness ==
  /\ run[1].pc = "pause"
  /\ run[1].lastReading = 0
  /\ run[1].lastItem = "saved"
  /\ run[1].snapshots = 2
  /\ run[1].successfulParses = 2
  /\ run[1].failedParses = 1

\* C36: in the summary of a run over a non-empty catalog errors has as many
\* entries as failedParses; the summary of an empty catalog has one entry in
\* errors and failedParses = 0.
C36_ErrorsMatchFailuresUnlessEmpty ==
  run[1].pc = "done" =>
    IF run[1].exit = "empty"
      THEN run[1].errors = 1 /\ run[1].failedParses = 0 /\ run[1].totalGames = 0
      ELSE run[1].errors = run[1].failedParses /\ run[1].totalGames > 0

\* A run over a non-empty catalog has returned with a null reading and an
\* exception among its items
C36_Witness ==
  /\ run[1].pc = "done"
  /\ run[1].exit # "empty"
  /\ run[1].failedParses = 2
  /\ run[1].errors = 2
  /\ run[1].successfulParses = 1

\* C36 as the specification words it: in every summary, for every catalog size
\* including 0, errors has as many entries as failedParses.
C36_ErrorsMatchFailures ==
  run[1].pc = "done" => run[1].errors = run[1].failedParses

\* C37: the totalCycles of the summary of startCircularParsingForDuration is the
\* number of complete passes over the catalog, floor(processed / totalGames).
C37_TotalCyclesCountsPasses ==
  (run[1].pc = "done" /\ run[1].mode = "duration" /\ run[1].totalGames > 0)
    => run[1].totalCycles = Processed(run[1]) \div run[1].totalGames

\* C33: one pass of analyzeAllGamesForAnomalies classifies the game at most
\* once and records at most one anomaly for it, also when several snapshots
\* share the latest timestamp; anomaliesFound is the number of rows the pass
\* inserted, each with notified = 0.
C33_OneClassificationPerGame ==
  detector.pass.made =>
    /\ detector.pass.classified <= 1
    /\ Len(anomalies) <= 1
    /\ detector.pass.anomaliesFound = Len(anomalies)
    /\ \A a \in Ids(anomalies) : anomalies[a].notified = 0

\* The latest values a spike is looked for among
SpikeCcus == {10, 135, 180}

\* C34: for every window of at least MIN_POINTS_IN_WINDOW snapshots and every
\* nSigma there is a value of the latest snapshot for which the pass records
\* an anomaly, although the window holds that snapshot.
C34_SpikeIsDetectable ==
  (detector.pass.made /\ Len(detector.window) >= detector.MIN_POINTS_IN_WINDOW)
    => \E currentCcu \in SpikeCcus :
         LET rows == SubSeq(detector.window, 1, Len(detector.window) - 1)
                       \o <<currentCcu>>
         IN AnalyzeGameForAnomalies([throws |-> FALSE, rows |-> rows],
                                    currentCcu, detector).kind = "anomaly"

\* C31: when a second invocation of sendAnomalyNotifications starts while the
\* first awaits a send or the delay, no anomaly is accepted by the channel
\* from both invocations.
C31_NoAnomalySentByBoth ==
  overlap.acceptedFrom.first \cap overlap.acceptedFrom.second = {}

\* C32: a run of main that has undelivered anomalies in the ledger after its
\* analysis step invokes sendAnomalyNotifications.
C32_UndeliveredAreRetried ==
  (main.pc \in {"notifying", "done"} /\ main.analysed /\ main.undelivered > 0)
    => main.invoked

\* C38: at most one of the three input-mode flags is true.
C38_OneInputMode ==
  Cardinality({flag \in {"waitingForNSigma", "waitingForMinDelta",
                         "waitingForCustomMessage"} : input[flag]}) <= 1

\* C39: at most one execution of parseNewGames is in flight.
C39_OneParseInFlight ==
  gameParsing.inFlight <= 1

====
